---- MODULE Spec2Model ----
(***************************************************************************)
(* Model of the knowledge-assistant query path:                            *)
(*   ka/agent.py      SimplePlanner, Tools, AgentLoop.run, _expand_query   *)
(*   ka/generator.py  format_answer, answer_with_llm, answer_extractively  *)
(*   ka/llm.py        LLMClient.chat, get_default_llm                      *)
(*   ka/server.py     POST /ask                                            *)
(*   telegram_bot/handlers/query.py  init_retriever, handle_query          *)
(*                                                                         *)
(* Text is a sequence of one-character strings.  The module is ASCII, so   *)
(* the Cyrillic literals of the source are written in transliteration:     *)
(* "zametka" for the word appended by _expand_query, "pokazhi" and         *)
(* "otkroj" for the two Russian verbs of the planner.                      *)
(* Scores are in hundredths: 15 stands for 0.15.                           *)
(***************************************************************************)
EXTENDS Integers, Sequences, FiniteSets, TLC

(***************************************************************************)
(* Bounds                                                                  *)
(***************************************************************************)
MaxInputLen == 2
MaxHits == 2
MaxThreads == 2
MaxChunks == 2
MaxDim == 2
MaxStored == 2
MaxWords == 4
MaxChunkSize == 3
MaxOverlap == 2
MaxSections == 2
MaxCandidates == 5
MaxCap == 2
MaxTitleLen == 3
MaxTextLen == 5
MaxLimit == 3
MaxRank == 3
MaxFuse == 2
MaxLines == 4
MaxRows == 3
MaxJudgeN == 2
MaxPlanWords == 2

(***************************************************************************)
(* Program constants                                                       *)
(***************************************************************************)
DefaultK == 5
ExpandThreshold == 15
QueryMinLen == 8
TextPrefix == 80
TelegramMaxLength == 4000
ErrorPrefix == 200
\* retriever.py 46-47: the defaults of KA_MAX_CHUNKS_PER_NOTE and KA_RRF_K
DefaultRrfK == 60
DefaultCap == 2
\* retriever.py 74, 76, 86, 87, in twentieths: 0.35, 0.10, 1.0 and 0.15
TagBoost == 7
GraphBoost == 2
KeywordPenalty == 20
KeywordBonus == 3
\* embeddings.py 14: EmbeddingConfig.hashing_dim
DefaultHashingDim == 4096

(***************************************************************************)
(* Optional values: None is <<>>, Some(v) is <<v>>.                        *)
(***************************************************************************)
None == <<>>
Some(v) == <<v>>

(***************************************************************************)
(* Characters and text helpers (Python str methods used by the source)     *)
(***************************************************************************)
LowerLetters ==
  {"a", "b", "c", "d", "e", "h", "i", "j", "k", "m", "n", "o", "p", "r", "t", "z"}
UpperLetters == {"A", "D", "M", "O"}

IsSpace(ch) == ch = " "
IsAlnum(ch) == ch \in LowerLetters \cup UpperLetters

LowerChar(ch) ==
  CASE ch = "A" -> "a"
    [] ch = "D" -> "d"
    [] ch = "M" -> "m"
    [] ch = "O" -> "o"
    [] OTHER -> ch

Lower(s) == [i \in 1..Len(s) |-> LowerChar(s[i])]

Contains(s, sub) ==
  \E i \in 0..(Len(s) - Len(sub)) : SubSeq(s, i + 1, i + Len(sub)) = sub

EndsWith(s, suf) ==
  /\ Len(s) >= Len(suf)
  /\ SubSeq(s, Len(s) - Len(suf) + 1, Len(s)) = suf

\* str.replace(old, new) for single characters
ReplaceChar(s, old, new) == [i \in 1..Len(s) |-> IF s[i] = old THEN new ELSE s[i]]

\* str.split() with no argument: maximal runs of non-whitespace
RECURSIVE SplitFrom(_, _, _)
SplitFrom(s, i, cur) ==
  IF i > Len(s)
    THEN IF cur = <<>> THEN <<>> ELSE <<cur>>
    ELSE IF IsSpace(s[i])
           THEN IF cur = <<>> THEN SplitFrom(s, i + 1, <<>>)
                              ELSE <<cur>> \o SplitFrom(s, i + 1, <<>>)
           ELSE SplitFrom(s, i + 1, Append(cur, s[i]))

Split(s) == SplitFrom(s, 1, <<>>)

\* " ".join(words)
RECURSIVE Join(_)
Join(words) ==
  IF words = <<>> THEN <<>>
  ELSE IF Len(words) = 1 THEN words[1]
  ELSE words[1] \o <<" ">> \o Join(Tail(words))

\* str.strip(chars)
RECURSIVE LStrip(_, _)
LStrip(s, chars) ==
  IF s # <<>> /\ Head(s) \in chars THEN LStrip(Tail(s), chars) ELSE s

RECURSIVE RStrip(_, _)
RStrip(s, chars) ==
  IF s # <<>> /\ s[Len(s)] \in chars THEN RStrip(SubSeq(s, 1, Len(s) - 1), chars) ELSE s

Strip(s, chars) == RStrip(LStrip(s, chars), chars)

\* str.strip() with no argument
IsBlank(s) == \A i \in 1..Len(s) : IsSpace(s[i])

\* list[:k] for k >= 0
Take(s, k) == SubSeq(s, 1, IF k < Len(s) THEN k ELSE Len(s))

\* str(n) for n >= 0, most significant digit first
Digit(d) ==
  CASE d = 0 -> "0" [] d = 1 -> "1" [] d = 2 -> "2" [] d = 3 -> "3" [] d = 4 -> "4"
    [] d = 5 -> "5" [] d = 6 -> "6" [] d = 7 -> "7" [] d = 8 -> "8" [] d = 9 -> "9"

RECURSIVE Decimal(_)
Decimal(n) == IF n < 10 THEN <<Digit(n)>> ELSE Append(Decimal(n \div 10), Digit(n % 10))

\* int(s) for a text of decimal digits
DigitValue(ch) == CHOOSE d \in 0..9 : Digit(d) = ch

RECURSIVE ParseInt(_)
ParseInt(s) ==
  IF Len(s) = 1 THEN DigitValue(s[1])
  ELSE ParseInt(SubSeq(s, 1, Len(s) - 1)) * 10 + DigitValue(s[Len(s)])

\* a dict kept as its keys (ids) and values (payload) in insertion order:
\* d[key] = v, and the same for a zip of keys and values
DictPut(d, key, v) ==
  IF \E i \in 1..Len(d.ids) : d.ids[i] = key
    THEN [ids |-> d.ids,
          payload |-> [i \in 1..Len(d.ids) |-> IF d.ids[i] = key THEN v ELSE d.payload[i]]]
    ELSE [ids |-> Append(d.ids, key), payload |-> Append(d.payload, v)]

RECURSIVE DictPutAll(_, _, _)
DictPutAll(d, keys, values) ==
  IF keys = <<>> \/ values = <<>> THEN d
  ELSE DictPutAll(DictPut(d, Head(keys), Head(values)), Tail(keys), Tail(values))

(***************************************************************************)
(* Literals of the source                                                  *)
(***************************************************************************)
Zametka == <<"z", "a", "m", "e", "t", "k", "a">>
Pokazhi == <<"p", "o", "k", "a", "z", "h", "i">>
Otkroj == <<"o", "t", "k", "r", "o", "j">>
OpenVerb == <<"o", "p", "e", "n">>
DotMd == <<".", "m", "d">>
StripChars == {"\"", "'", "(", ")", ",", ".", " "}

(***************************************************************************)
(* ka/agent.py pure functions                                              *)
(***************************************************************************)
\* _find_md_token: Some(token) or None
RECURSIVE FirstMdToken(_)
FirstMdToken(parts) ==
  IF parts = <<>> THEN None
  ELSE IF EndsWith(Lower(Head(parts)), DotMd)
         THEN Some(Strip(Head(parts), StripChars))
         ELSE FirstMdToken(Tail(parts))

_find_md_token(text) == FirstMdToken(Split(ReplaceChar(text, "\\", "/")))

\* _expand_query
CleanedChars(q) ==
  [i \in 1..Len(q) |-> IF IsAlnum(q[i]) \/ IsSpace(q[i]) THEN q[i] ELSE " "]

_expand_query(q) ==
  LET words == Split(CleanedChars(q))
      cleaned == Join(words)
  IN  IF cleaned = <<>> THEN q
      ELSE IF Len(words) < 3 THEN cleaned \o <<" ">> \o Zametka
      ELSE cleaned

\* ToolCall values
SearchCall(q, k) == [name |-> "search", args |-> [query |-> q, k |-> k]]
GetNoteCall(id) == [name |-> "get_note", args |-> [note_id |-> id]]

plan_any_md_token(user_input) ==
  LET token == _find_md_token(user_input)
  IN  IF token # None /\ token[1] # <<>>
        THEN GetNoteCall(token[1])
        ELSE SearchCall(user_input, DefaultK)

\* SimplePlanner.plan
plan(user_input) ==
  LET low == Lower(user_input)
      token == _find_md_token(user_input)
  IN  IF /\ (Contains(low, Pokazhi) \/ Contains(low, Otkroj) \/ Contains(low, OpenVerb))
         /\ Contains(low, DotMd)
         /\ token # None
         /\ token[1] # <<>>
        THEN GetNoteCall(token[1])
        ELSE SearchCall(user_input, DefaultK)

\* variant: the planner's k is kept
PlannedCall_planner_k(user_input, k) == plan(user_input)

\* AgentLoop.run lines 62-64: the planned call, k overridden on a search call
PlannedCall(user_input, k) ==
  LET call == plan(user_input)
  IN  IF call.name = "search" THEN [call EXCEPT !.args.k = k] ELSE call

\* AgentLoop.run line 85: the recorded retry call
RetryCall(expanded, k) == SearchCall(expanded, k)

\* variant: the empty-result case is forgotten
NeedsExpansion_nonempty(hits) == hits # <<>> /\ hits[1].score < ExpandThreshold

\* variant: the threshold itself counts as too low
NeedsExpansion_inclusive(hits) == hits = <<>> \/ hits[1].score <= ExpandThreshold

\* AgentLoop.run line 82: not hits or hits[0].score < 0.15
NeedsExpansion(hits) == hits = <<>> \/ hits[1].score < ExpandThreshold

\* variant: the second result always replaces the first
WorkingHits_always(hits, hits2) == hits2

\* AgentLoop.run line 87-88: if hits2: hits = hits2
WorkingHits(hits, hits2) == IF hits2 # <<>> THEN hits2 ELSE hits

\* variant: ids are matched without regard to case
RECURSIVE get_note_nocase(_, _)
get_note_nocase(rows, note_id) ==
  IF rows = <<>> THEN None
  ELSE IF Lower(Head(rows).id) = Lower(note_id) THEN Some(Head(rows))
  ELSE get_note_nocase(Tail(rows), note_id)

\* Tools.get_note: the first row whose id equals note_id, as Some(row), or None
RECURSIVE get_note(_, _)
get_note(rows, note_id) ==
  IF rows = <<>> THEN None
  ELSE IF Head(rows).id = note_id THEN Some(Head(rows))
  ELSE get_note(Tail(rows), note_id)

\* Tools.search -> Retriever.retrieve: the first k entries of the ranking the
\* index holds for the query (k > 0)
search(ranked, k) == Take(ranked, k)

(***************************************************************************)
(* Answers.  Every returned text is a record of the same shape: kind names *)
(* the template, question/hits/body its parameters.                        *)
(***************************************************************************)
Text(kind, question, hits, body) ==
  [kind |-> kind, question |-> question, hits |-> hits, body |-> body]

\* AgentLoop.run line 71
NoteNotFound(note_id) == Text("note_not_found", note_id, <<>>, <<>>)
\* AgentLoop.run lines 72-74
NoteText(note) == Text("note", <<>>, <<>>, <<note.title, note.content>>)
\* the fixed message of generator.py lines 48 and 68
NoHitsMessage == Text("no_hits", <<>>, <<>>, <<>>)

\* ka/generator.py answer_extractively
answer_extractively(question, hits) ==
  IF hits = <<>> THEN NoHitsMessage
  ELSE Text("extractive", question, hits, <<>>)

\* ka/generator.py line 102: answer.strip() + sources_block(hits)
LLMAnswer(content, hits) == Text("llm", <<>>, hits, <<Strip(content, {" "})>>)

\* ka/generator.py format_answer: the modes that select the extractive path
IsExtractiveMode(mode) == mode \in {"extractive", "baseline"}

\* ka/llm.py get_default_llm: the cached client, a new client, or RuntimeError
get_default_llm(default, api_key) ==
  IF default # None THEN [client |-> default, raised |-> None]
  ELSE IF Strip(api_key, {" "}) = <<>>
         THEN [client |-> None, raised |-> Some("RuntimeError")]
  ELSE [client |-> Some("LLMClient"), raised |-> None]

\* ka/llm.py LLMClient.chat: the content string, or the exception raised
chat(outcome) ==
  IF outcome.kind = "ok"
    THEN [content |-> Some(outcome.content), raised |-> None]
    ELSE [content |-> None, raised |-> Some(outcome.kind)]

\* variant: only the client's own RuntimeError is caught
IsCaught_runtime_only(exc) == exc = "MalformedResponse"

\* ka/generator.py line 98: except Exception catches every failure of chat
IsCaught(exc) == exc \notin {"KeyboardInterrupt", "SystemExit", "GeneratorExit"}

\* ka/generator.py lines 93-102: try chat, on a caught failure go extractive
ChatAnswer(question, hits, outcome) ==
  LET r == chat(outcome)
  IN  IF r.raised = None
        THEN [answer |-> Some(LLMAnswer(r.content[1], hits)), raised |-> None]
        ELSE IF IsCaught(r.raised[1])
               THEN [answer |-> Some(answer_extractively(question, hits)),
                     raised |-> None]
               ELSE [answer |-> None, raised |-> r.raised]

\* ka/server.py AskRequest: k defaults to 5 when the body has no k
AskRequest(question, k_field) ==
  [question |-> question, k |-> IF k_field = None THEN DefaultK ELSE k_field[1]]

\* variant: the request's k is forwarded
AskK_forwarded(req) == req.k

\* ka/server.py line 40: agent.run(req.question), so run's k is its default
AskK(req) == DefaultK

(***************************************************************************)
(* Input domains                                                           *)
(***************************************************************************)
InputAlphabet == {"a", " ", "?"}
ShortInputs == UNION {[1..n -> InputAlphabet] : n \in 0..MaxInputLen}
LongInputs ==
  { <<"a", " ", "b", " ", "c">>,
    <<"a", " ", "b", " ", "c", "?">>,
    <<"o", "p", "e", "n">>,
    <<"o", "p", "e", "n", " ", "a", ".", "m", "d">>,
    <<"O", "p", "e", "n", " ", "\"", "b", ".", "m", "d">>,
    <<"o", "p", "e", "n", " ", "A", ".", "M", "D">>,
    <<"o", "p", "e", "n", " ", "(", "a", ".", "m", "d", ")">>,
    <<"a", ".", "m", "d">> }
Inputs == ShortInputs \cup LongInputs

\* caller-supplied k values
Ks == {1, DefaultK}
\* the k field of a POST /ask body: absent, or a number
KFields == {None} \cup {Some(kk) : kk \in Ks}

\* rankings an index can hold for a query: at most MaxHits hits, best first
Scores == {ExpandThreshold - 5, ExpandThreshold, ExpandThreshold + 5}
Hit(score) == [score |-> score]
IsRanked(r) == \A i \in 1..(Len(r) - 1) : r[i].score >= r[i + 1].score
RankedLists ==
  {r \in UNION {[1..n -> {Hit(sc) : sc \in Scores}] : n \in 0..MaxHits} : IsRanked(r)}

\* contents of the notes store
NoteA == [id |-> <<"a", ".", "m", "d">>, title |-> <<"A">>, content |-> <<"x">>]
NoteB == [id |-> <<"b", ".", "m", "d">>, title |-> <<"B">>, content |-> <<>>]
NoteStores == {<<>>, <<NoteA>>, <<NoteB, NoteA>>}

\* KA_ANSWER_MODE after strip().lower()
Modes == {"llm", "extractive", "baseline", "other"}
\* KA_LLM_API_KEY
ApiKeys == {<<>>, <<" ">>, <<"k">>}
\* what the chat-completions call can do
ChatOutcomes ==
  { [kind |-> "ok", content |-> <<"y", " ">>],
    [kind |-> "ConnectionError", content |-> <<>>],
    [kind |-> "Timeout", content |-> <<>>],
    [kind |-> "HTTPError", content |-> <<>>],
    [kind |-> "MalformedResponse", content |-> <<>>] }

(***************************************************************************)
(* State                                                                   *)
(***************************************************************************)
VARIABLES
  process,       \* "cli" | "server" | "bot": the process this run is about
  pc,            \* position in the current turn
  user_input,    \* run's user_input / the bot's message.text
  k,             \* run's k
  caller_k,      \* the k run was entered with
  req,           \* server: Some(AskRequest) of the current request
  calls,         \* run's calls list
  query,         \* run's query
  expanded,      \* run's expanded, Some(text) once computed
  hits,          \* the working hit list
  hits1,         \* Some(result of the first retrieval of the turn)
  hits2,         \* Some(run's hits2) once the second search returned
  note,          \* Some(row) found by get_note
  llm,           \* answer_with_llm's llm
  _DEFAULT_LLM,  \* ka.llm._DEFAULT_LLM
  _retriever,    \* telegram_bot.handlers.query._retriever
  answer,        \* Some(text returned)
  raised,        \* Some(exception that left the turn's code)
  response,      \* server: Some(response sent)
  replies,       \* bot: messages sent in this turn
  trace,         \* the turn's calls in execution order
  env,           \* what the turn read from its environment
  prev,          \* server: Some(the previous request's record)
  replay         \* server: Some(environment to present again)

VARIABLES
  t_pc,          \* get_default_llm: each thread's position in its call
  t_client,      \* get_default_llm: the LLMClient a thread has constructed at line 95
  t_result,      \* get_default_llm: Some(what the thread's last call returned)
  constructed,   \* the number of LLMClient objects constructed so far
  returned       \* the clients get_default_llm has returned, in order

agent_vars == <<process, pc, user_input, k, caller_k, req, calls, query, expanded, hits, hits1,
          hits2, note, llm, _DEFAULT_LLM, _retriever, answer, raised, response,
          replies, trace, env, prev, replay>>

llm_vars == <<t_pc, t_client, t_result, constructed, returned>>

VARIABLES
  index,         \* Some(the index object at hand), set by create_best_index / load_best_index
  files,         \* the index directory: each file's content, or None when absent
  ix_op,         \* the last index operation, its arguments and what it raised
  ix_before,     \* the index object as it was when the last operation was called
  last_build     \* Some(the chunks of the most recent build_index into the directory)

index_vars == <<index, files, ix_op, ix_before, last_build>>

VARIABLES
  args,          \* preprocess_obsidian: Some([chunk_size, overlap]) of the command line
  chunk_note_id,       \* Some(id of the note being chunked)
  n_sections,    \* len(sections) of that note
  sec_i,         \* how many of its sections chunk_text was called for
  section_text,  \* the section_text of the last chunk_text call
  raw_chunks,    \* the raw_chunks of the last chunk_text call
  raw_i,         \* how many of raw_chunks the inner loop has been through
  chunk_index,   \* main's chunk_index
  out_chunks     \* the Chunk records written for the note being chunked: their
                 \* chunk_id, note_id, section (by number) and position

chunk_vars == <<args, chunk_note_id, n_sections, sec_i, section_text, raw_chunks, raw_i,
                chunk_index, out_chunks>>

VARIABLES
  cfg,           \* hybrid Retriever: Some([_diversify_by_note, _max_chunks_per_note])
  top_k,         \* retrieve's k after line 50
  sorted_hits,   \* rescored as line 98 left it
  rescored,      \* retrieve's rescored
  hr_pc,         \* position in retrieve: "idle", "sorted", "diversified", "returned"
  out            \* retrieve's out

hybrid_vars == <<cfg, top_k, sorted_hits, rescored, hr_pc, out>>

VARIABLES
  val_row,       \* make_validation_set: Some(the chunk row r of the loop at line 46)
  val_example    \* Some(the example appended for it at lines 60-66)

val_vars == <<val_row, val_example>>

VARIABLES
  hq_pc,         \* handle_query from line 99 on: the statement to run next
  hq_max_length, \* the max_length split_long_message is called with at line 123
  hq_formatted,  \* Some(handle_query's formatted)
  hq_chunks,     \* Some(handle_query's chunks)
  hq_i,          \* how many turns the loop at line 125 has completed
  hq_sent,       \* the messages message.answer has delivered, in order
  hq_exc,        \* Some(str(e)) of the exception raised inside the try block
  hq_escaped     \* Some(str(e)) of the exception that left handle_query

reply_vars == <<hq_pc, hq_max_length, hq_formatted, hq_chunks, hq_i, hq_sent, hq_exc,
                hq_escaped>>

VARIABLES
  req_k,         \* hybrid retrieve: the k it was called with
  vec_hits,      \* retrieve's vec_hits (line 55), the payloads in rank order
  bm25_hits,     \* retrieve's bm25_hits (line 58), the payloads in rank order
  _rrf_k,        \* Retriever._rrf_k
  fused          \* retrieve's fused (line 61)

fuse_vars == <<req_k, vec_hits, bm25_hits, _rrf_k, fused>>

VARIABLES
  fm_text,       \* split_frontmatter: the file text, as its lines
  fm_pc,         \* "start", "done"
  fm_parsed,     \* what yaml.safe_load made of the block: None before, else Some(kind)
  fm_data,       \* the returned front matter
  fm_body        \* the returned body, as its lines

fm_vars == <<fm_text, fm_pc, fm_parsed, fm_data, fm_body>>

VARIABLES
  ev_judge,      \* evaluate_rag: args.judge, i.e. llm_judge is set
  ev_judge_n,    \* args.judge_n
  ev_rows,       \* len(rows)
  ev_idx,        \* the number of examples the loop of line 157 has finished
  judge_count,   \* judge_count
  judge_out,     \* judge_out of the last example: None or Some(reply kind)
  ev_prompts     \* the number of llm_judge.chat calls so far

eval_vars == <<ev_judge, ev_judge_n, ev_rows, ev_idx, judge_count, judge_out, ev_prompts>>

VARIABLES
  pl_input,      \* SimplePlanner.plan: user_input
  pl_call        \* None before the call, then Some(the returned ToolCall)

plan_vars == <<pl_input, pl_call>>

VARIABLES
  em_cfg,        \* build_index: embed_cfg (backend, hashing_dim)
  em_runtime,    \* whether sentence_transformers can be loaded: at build, at query time
  em_model_dim,  \* the output size of the named sentence-transformers model
  em_pc,         \* "start", "failed", "built", "opened", "queried"
  em_index_dim,  \* the dimensionality of the saved index: None or Some(dim)
  em_meta,       \* what meta.json records about the embedder: None or Some(record)
  em_query_cfg,  \* Retriever._embed_cfg: None or Some(cfg)
  em_query_dim   \* the length of the query vector: None or Some(dim)

embed_vars == <<em_cfg, em_runtime, em_model_dim, em_pc, em_index_dim, em_meta,
                em_query_cfg, em_query_dim>>

aux == <<llm_vars, index_vars, chunk_vars, hybrid_vars, val_vars, reply_vars,
         fuse_vars, fm_vars, eval_vars, plan_vars, embed_vars>>

not_llm == <<index_vars, chunk_vars, hybrid_vars, val_vars, reply_vars, fuse_vars,
             fm_vars, eval_vars, plan_vars, embed_vars>>
not_index == <<llm_vars, chunk_vars, hybrid_vars, val_vars, reply_vars, fuse_vars,
               fm_vars, eval_vars, plan_vars, embed_vars>>
not_chunk == <<llm_vars, index_vars, hybrid_vars, val_vars, reply_vars, fuse_vars,
               fm_vars, eval_vars, plan_vars, embed_vars>>
not_hybrid == <<llm_vars, index_vars, chunk_vars, val_vars, reply_vars, fuse_vars,
                fm_vars, eval_vars, plan_vars, embed_vars>>
not_val == <<llm_vars, index_vars, chunk_vars, hybrid_vars, reply_vars, fuse_vars,
             fm_vars, eval_vars, plan_vars, embed_vars>>
not_reply == <<llm_vars, index_vars, chunk_vars, hybrid_vars, val_vars, fuse_vars,
               fm_vars, eval_vars, plan_vars, embed_vars>>
not_fuse == <<llm_vars, index_vars, chunk_vars, hybrid_vars, val_vars, reply_vars,
              fm_vars, eval_vars, plan_vars, embed_vars>>
not_fm == <<llm_vars, index_vars, chunk_vars, hybrid_vars, val_vars, reply_vars,
            fuse_vars, eval_vars, plan_vars, embed_vars>>
not_eval == <<llm_vars, index_vars, chunk_vars, hybrid_vars, val_vars, reply_vars,
              fuse_vars, fm_vars, plan_vars, embed_vars>>
not_plan == <<llm_vars, index_vars, chunk_vars, hybrid_vars, val_vars, reply_vars,
              fuse_vars, fm_vars, eval_vars, embed_vars>>
not_embed == <<llm_vars, index_vars, chunk_vars, hybrid_vars, val_vars, reply_vars,
               fuse_vars, fm_vars, eval_vars, plan_vars>>

vars == <<agent_vars, aux>>

Event(op, arg) == [op |-> op, arg |-> arg]

EmptyEnv ==
  [ranked1 |-> None, ranked2 |-> None, rows |-> None, mode |-> None,
   api_key |-> None, chat |-> None]

\* the values the environment may present for a field
Present(field, domain) ==
  IF replay # None /\ replay[1][field] # None THEN {replay[1][field][1]} ELSE domain

\* the request threads of the server's thread pool
Threads == 1..MaxThreads

\* the n-th LLMClient object constructed in the process
LLMClient(n) == [class |-> "LLMClient", id |-> n]

LLMInit ==
  /\ t_pc = [t \in Threads |-> "idle"]
  /\ t_client = [t \in Threads |-> None]
  /\ t_result = [t \in Threads |-> None]
  /\ constructed = 0
  /\ returned = {}

NoFiles == [hnsw_index |-> None, meta |-> None, vectors_npy |-> None, payload_jsonl |-> None]

IndexInit ==
  /\ index = None
  /\ files = NoFiles
  /\ ix_op = [op |-> "none"]
  /\ ix_before = None
  /\ last_build = None

\* no note is being chunked
ChunkIdle ==
  /\ chunk_note_id = None
  /\ n_sections = 0
  /\ sec_i = 0
  /\ section_text = <<>>
  /\ raw_chunks = <<>>
  /\ raw_i = 0
  /\ chunk_index = 0
  /\ out_chunks = <<>>

ChunkInit ==
  /\ args = None
  /\ ChunkIdle

HybridInit ==
  /\ cfg = None
  /\ top_k = DefaultK
  /\ sorted_hits = <<>>
  /\ rescored = <<>>
  /\ hr_pc = "idle"
  /\ out = <<>>

ValInit ==
  /\ val_row = None
  /\ val_example = None

ReplyInit ==
  /\ hq_pc = "typing"
  /\ hq_max_length = TelegramMaxLength
  /\ hq_formatted = None
  /\ hq_chunks = None
  /\ hq_i = 0
  /\ hq_sent = <<>>
  /\ hq_exc = None
  /\ hq_escaped = None

FuseInit ==
  /\ req_k = DefaultK
  /\ vec_hits = <<>>
  /\ bm25_hits = <<>>
  /\ _rrf_k = DefaultRrfK
  /\ fused = <<>>

FmInit ==
  /\ fm_text = <<>>
  /\ fm_pc = "start"
  /\ fm_parsed = None
  /\ fm_data = <<>>
  /\ fm_body = <<>>

EvalInit ==
  /\ ev_judge = FALSE
  /\ ev_judge_n = 0
  /\ ev_rows = 0
  /\ ev_idx = 0
  /\ judge_count = 0
  /\ judge_out = None
  /\ ev_prompts = 0

PlanInit ==
  /\ pl_input = <<>>
  /\ pl_call = None

EmbedInit ==
  /\ em_cfg = [model_name |-> "intfloat/multilingual-e5-small", backend |-> "auto",
               hashing_dim |-> DefaultHashingDim]
  /\ em_runtime = [build |-> FALSE, query |-> FALSE]
  /\ em_model_dim = 384
  /\ em_pc = "start"
  /\ em_index_dim = None
  /\ em_meta = None
  /\ em_query_cfg = None
  /\ em_query_dim = None

AuxInit ==
  /\ LLMInit
  /\ IndexInit
  /\ ChunkInit
  /\ HybridInit
  /\ ValInit
  /\ ReplyInit
  /\ FuseInit
  /\ FmInit
  /\ EvalInit
  /\ PlanInit
  /\ EmbedInit

\* the initial state of every subsystem but the named one
AuxInitExcept(s) ==
  /\ (IF s = "llm" THEN TRUE ELSE LLMInit)
  /\ (IF s = "index" THEN TRUE ELSE IndexInit)
  /\ (IF s = "chunk" THEN TRUE ELSE ChunkInit)
  /\ (IF s = "hybrid" THEN TRUE ELSE HybridInit)
  /\ (IF s = "val" THEN TRUE ELSE ValInit)
  /\ (IF s = "reply" THEN TRUE ELSE ReplyInit)
  /\ (IF s = "fuse" THEN TRUE ELSE FuseInit)
  /\ (IF s = "fm" THEN TRUE ELSE FmInit)
  /\ (IF s = "eval" THEN TRUE ELSE EvalInit)
  /\ (IF s = "plan" THEN TRUE ELSE PlanInit)
  /\ (IF s = "embed" THEN TRUE ELSE EmbedInit)

AgentInit ==
  /\ process \in {"cli", "server", "bot"}
  /\ pc = IF process = "bot" THEN "startup" ELSE "idle"
  /\ user_input = <<>>
  /\ k = DefaultK
  /\ caller_k = DefaultK
  /\ req = None
  /\ calls = <<>>
  /\ query = <<>>
  /\ expanded = None
  /\ hits = <<>>
  /\ hits1 = None
  /\ hits2 = None
  /\ note = None
  /\ llm = None
  /\ _DEFAULT_LLM = None
  /\ _retriever = None
  /\ answer = None
  /\ raised = None
  /\ response = None
  /\ replies = <<>>
  /\ trace = <<>>
  /\ env = EmptyEnv
  /\ prev = None
  /\ replay = None

Init == AgentInit /\ AuxInit

\* a new turn starts with fresh locals
NewTurn(input, kk) ==
  /\ user_input' = input
  /\ k' = kk
  /\ caller_k' = kk
  /\ calls' = <<>>
  /\ query' = <<>>
  /\ expanded' = None
  /\ hits' = <<>>
  /\ hits1' = None
  /\ hits2' = None
  /\ note' = None
  /\ llm' = None
  /\ answer' = None
  /\ raised' = None
  /\ response' = None
  /\ replies' = <<>>
  /\ trace' = <<>>
  /\ env' = EmptyEnv

(***************************************************************************)
(* Entry points                                                            *)
(***************************************************************************)
\* a direct caller of AgentLoop.run(user_input, k), e.g. scripts/ask.py
RunStart ==
  /\ process = "cli"
  /\ pc = "idle"
  /\ \E input \in Inputs, kk \in Ks : NewTurn(input, kk)
  /\ pc' = "plan"
  /\ req' = None
  /\ prev' = None
  /\ replay' = None
  /\ UNCHANGED <<process, _DEFAULT_LLM, _retriever>>
  /\ UNCHANGED aux

\* ka/server.py ask: a POST /ask request arrives and agent.run is entered
AskStart ==
  /\ process = "server"
  /\ pc = "idle"
  /\ \E question \in Inputs, k_field \in KFields :
       LET r == AskRequest(question, k_field)
       IN  /\ req' = Some(r)
           /\ NewTurn(r.question, AskK(r))
  /\ pc' = "plan"
  /\ prev' = None
  /\ replay' = None
  /\ UNCHANGED <<process, _DEFAULT_LLM, _retriever>>
  /\ UNCHANGED aux

(***************************************************************************)
(* AgentLoop.run                                                           *)
(***************************************************************************)
\* lines 61-65: plan, override k, record the call
Plan ==
  /\ pc = "plan"
  /\ LET call == PlannedCall(user_input, k)
     IN  /\ calls' = <<call>>
         /\ pc' = IF call.name = "get_note" THEN "get_note" ELSE "search"
  /\ UNCHANGED <<process, user_input, k, caller_k, req, query, expanded, hits, hits1, hits2,
                 note, llm, _DEFAULT_LLM, _retriever, answer, raised, response,
                 replies, trace, env, prev, replay>>
  /\ UNCHANGED aux

\* lines 67-74: the get_note branch
GetNote ==
  /\ pc = "get_note"
  /\ LET note_id == calls[1].args.note_id
     IN  \E rows \in Present("rows", NoteStores) :
           LET found == get_note(rows, note_id)
           IN  /\ env' = [env EXCEPT !.rows = Some(rows)]
               /\ trace' = Append(trace, Event("get_note", GetNoteCall(note_id)))
               /\ note' = found
               /\ answer' = IF found = None THEN Some(NoteNotFound(note_id))
                                            ELSE Some(NoteText(found[1]))
  /\ pc' = "return"
  /\ UNCHANGED <<process, user_input, k, caller_k, req, calls, query, expanded, hits, hits1,
                 hits2, llm, _DEFAULT_LLM, _retriever, raised, response, replies,
                 prev, replay>>
  /\ UNCHANGED aux

\* lines 77-79: the first search
FirstSearch ==
  /\ pc = "search"
  /\ LET q == calls[1].args.query
         kk == calls[1].args.k
     IN  \E ranked \in Present("ranked1", RankedLists) :
           /\ query' = q
           /\ k' = kk
           /\ env' = [env EXCEPT !.ranked1 = Some(ranked)]
           /\ trace' = Append(trace, Event("search", SearchCall(q, kk)))
           /\ hits' = search(ranked, kk)
           /\ hits1' = Some(search(ranked, kk))
  /\ pc' = "check"
  /\ UNCHANGED <<process, user_input, caller_k, req, calls, expanded, hits2, note, llm,
                 _DEFAULT_LLM, _retriever, answer, raised, response, replies,
                 prev, replay>>
  /\ UNCHANGED aux

\* variant: the retry is recorded but the answer is generated first
CheckHits_early ==
  /\ pc = "check"
  /\ IF NeedsExpansion(hits)
       THEN /\ expanded' = Some(_expand_query(query))
            /\ IF _expand_query(query) # query
                 THEN /\ calls' = Append(calls, RetryCall(_expand_query(query), k))
                      /\ pc' = "format_answer"
                 ELSE /\ calls' = calls
                      /\ pc' = "format_answer"
       ELSE /\ expanded' = expanded
            /\ calls' = calls
            /\ pc' = "format_answer"
  /\ UNCHANGED <<process, user_input, k, caller_k, req, query, hits, hits1, hits2,
                 note, llm, _DEFAULT_LLM, _retriever, answer, raised, response,
                 replies, trace, env, prev, replay>>
  /\ UNCHANGED aux

\* lines 82-85: decide on the retry and record it
CheckHits ==
  /\ pc = "check"
  /\ IF NeedsExpansion(hits)
       THEN /\ expanded' = Some(_expand_query(query))
            /\ IF _expand_query(query) # query
                 THEN /\ calls' = Append(calls, RetryCall(_expand_query(query), k))
                      /\ pc' = "search2"
                 ELSE /\ calls' = calls
                      /\ pc' = "format_answer"
       ELSE /\ expanded' = expanded
            /\ calls' = calls
            /\ pc' = "format_answer"
  /\ UNCHANGED <<process, user_input, k, caller_k, req, query, hits, hits1, hits2, note, llm,
                 _DEFAULT_LLM, _retriever, answer, raised, response, replies,
                 trace, env, prev, replay>>
  /\ UNCHANGED aux

\* variant: the result of the retry is checked again
SecondSearch_loop ==
  /\ pc = "search2"
  /\ \E ranked \in Present("ranked2", RankedLists) :
       /\ env' = [env EXCEPT !.ranked2 = Some(ranked)]
       /\ trace' = Append(trace, Event("search", SearchCall(expanded[1], k)))
       /\ hits2' = Some(search(ranked, k))
       /\ hits' = WorkingHits(hits, search(ranked, k))
  /\ query' = expanded[1]
  /\ pc' = "check"
  /\ UNCHANGED <<process, user_input, k, caller_k, req, calls, expanded, hits1, note,
                 llm, _DEFAULT_LLM, _retriever, answer, raised, response, replies,
                 prev, replay>>
  /\ UNCHANGED aux

\* lines 86-88: the second search, on the expanded query
SecondSearch ==
  /\ pc = "search2"
  /\ \E ranked \in Present("ranked2", RankedLists) :
       /\ env' = [env EXCEPT !.ranked2 = Some(ranked)]
       /\ trace' = Append(trace, Event("search", SearchCall(expanded[1], k)))
       /\ hits2' = Some(search(ranked, k))
       /\ hits' = WorkingHits(hits, search(ranked, k))
  /\ pc' = "format_answer"
  /\ UNCHANGED <<process, user_input, k, caller_k, req, calls, query, expanded, hits1, note,
                 llm, _DEFAULT_LLM, _retriever, answer, raised, response, replies,
                 prev, replay>>
  /\ UNCHANGED aux

(***************************************************************************)
(* ka/generator.py, entered from AgentLoop.run line 90 and from            *)
(* handle_query line 119                                                   *)
(***************************************************************************)
\* the arguments of the format_answer call
FormatAnswerArgs(input, exp, working) == [question |-> input, hits |-> working]

\* variant: the LLM path does not look at the hit list first
FormatAnswer_nocheck ==
  /\ pc = "format_answer"
  /\ LET a == FormatAnswerArgs(user_input, expanded, hits)
     IN  \E mode \in Present("mode", Modes) :
           /\ env' = [env EXCEPT !.mode = Some(mode)]
           /\ trace' = Append(trace, Event("format_answer", a))
           /\ IF IsExtractiveMode(mode)
                THEN /\ answer' = Some(answer_extractively(a.question, a.hits))
                     /\ pc' = "return"
                ELSE /\ answer' = answer
                     /\ pc' = "get_llm"
  /\ UNCHANGED <<process, user_input, k, caller_k, req, calls, query, expanded, hits,
                 hits1, hits2, note, llm, _DEFAULT_LLM, _retriever, raised,
                 response, replies, prev, replay>>
  /\ UNCHANGED aux

\* format_answer, and answer_with_llm up to its empty-hits return
FormatAnswer ==
  /\ pc = "format_answer"
  /\ LET a == FormatAnswerArgs(user_input, expanded, hits)
     IN  \E mode \in Present("mode", Modes) :
           /\ env' = [env EXCEPT !.mode = Some(mode)]
           /\ trace' = Append(trace, Event("format_answer", a))
           /\ IF IsExtractiveMode(mode)
                THEN /\ answer' = Some(answer_extractively(a.question, a.hits))
                     /\ pc' = "return"
                ELSE IF a.hits = <<>>
                       THEN /\ answer' = Some(NoHitsMessage)
                            /\ pc' = "return"
                       ELSE /\ answer' = answer
                            /\ pc' = "get_llm"
  /\ UNCHANGED <<process, user_input, k, caller_k, req, calls, query, expanded, hits,
                 hits1, hits2, note, llm, _DEFAULT_LLM, _retriever, raised,
                 response, replies, prev, replay>>
  /\ UNCHANGED aux

\* answer_with_llm lines 73-76: llm = llm or get_default_llm(); if llm is None
GetLLM ==
  /\ pc = "get_llm"
  /\ LET a == trace[Len(trace)].arg
     IN  \E api_key \in Present("api_key", ApiKeys) :
           LET r == get_default_llm(_DEFAULT_LLM, api_key)
           IN  /\ env' = [env EXCEPT !.api_key =
                            IF _DEFAULT_LLM = None THEN Some(api_key) ELSE None]
               /\ trace' = Append(trace, Event("get_default_llm", a))
               /\ _DEFAULT_LLM' = IF r.raised = None THEN r.client ELSE _DEFAULT_LLM
               /\ llm' = r.client
               /\ raised' = r.raised
               /\ IF r.raised # None
                    THEN /\ answer' = answer
                         /\ pc' = "return"
                    ELSE IF r.client = None
                           THEN /\ answer' = Some(answer_extractively(a.question, a.hits))
                                /\ pc' = "return"
                           ELSE /\ answer' = answer
                                /\ pc' = "chat"
  /\ UNCHANGED <<process, user_input, k, caller_k, req, calls, query, expanded, hits,
                 hits1, hits2, note, _retriever, response, replies, prev, replay>>
  /\ UNCHANGED aux

\* answer_with_llm lines 93-102: the chat call and the fallback
Chat ==
  /\ pc = "chat"
  /\ LET a == trace[Len(trace)].arg
     IN  \E outcome \in Present("chat", ChatOutcomes) :
           /\ env' = [env EXCEPT !.chat = Some(outcome)]
           /\ trace' = Append(trace, Event("chat", a))
           /\ answer' = ChatAnswer(a.question, a.hits, outcome).answer
           /\ raised' = ChatAnswer(a.question, a.hits, outcome).raised
  /\ pc' = "return"
  /\ UNCHANGED <<process, user_input, k, caller_k, req, calls, query, expanded, hits,
                 hits1, hits2, note, llm, _DEFAULT_LLM, _retriever, response,
                 replies, prev, replay>>
  /\ UNCHANGED aux

(***************************************************************************)
(* Returns                                                                 *)
(***************************************************************************)
\* AgentLoop.run returns (answer, calls) to its caller, or raises
RunReturn ==
  /\ process = "cli"
  /\ pc = "return"
  /\ pc' = "done"
  /\ UNCHANGED <<process, user_input, k, caller_k, req, calls, query, expanded, hits,
                 hits1, hits2, note, llm, _DEFAULT_LLM, _retriever, answer, raised,
                 response, replies, trace, env, prev, replay>>
  /\ UNCHANGED aux

\* what POST /ask sends back: the AskResponse, or the framework's 500
AskResponse(ans, tool_calls, exc) ==
  IF exc # None THEN [status |-> 500, answer |-> None, tool_calls |-> <<>>]
  ELSE [status |-> 200, answer |-> ans, tool_calls |-> tool_calls]

\* ka/server.py lines 41-44
AskRespond ==
  /\ process = "server"
  /\ pc = "return"
  /\ response' = Some(AskResponse(answer, calls, raised))
  /\ prev' = IF replay # None THEN prev
             ELSE Some([req |-> req[1], env |-> env,
                        response |-> AskResponse(answer, calls, raised)])
  /\ pc' = "done"
  /\ UNCHANGED <<process, user_input, k, caller_k, req, calls, query, expanded, hits,
                 hits1, hits2, note, llm, _DEFAULT_LLM, _retriever, answer, raised,
                 replies, trace, env, replay>>
  /\ UNCHANGED aux

(***************************************************************************)
(* telegram_bot/handlers/query.py                                          *)
(***************************************************************************)
\* the outcomes of Retriever(index_dir=...) at query.py line 31
RetrieverOutcomes == {"ok", "FileNotFoundError"}

InitRetriever_swallow ==
  /\ process = "bot"
  /\ pc = "startup"
  /\ \E outcome \in RetrieverOutcomes :
       /\ _retriever' = IF outcome = "ok" THEN Some("Retriever") ELSE _retriever
       /\ pc' = "ready"
  /\ UNCHANGED <<process, user_input, k, caller_k, req, calls, query, expanded, hits,
                 hits1, hits2, note, llm, _DEFAULT_LLM, answer, raised, response,
                 replies, trace, env, prev, replay>>
  /\ UNCHANGED aux

\* bot.py main lines 49-52 and 63-65, query.py init_retriever: the constructor's
\* result is stored in the module global; an exception leaves the global as it
\* was, reaches main's except branch and ends the process
InitRetriever ==
  /\ process = "bot"
  /\ pc = "startup"
  /\ \E outcome \in RetrieverOutcomes :
       /\ _retriever' = IF outcome = "ok" THEN Some("Retriever") ELSE _retriever
       /\ pc' = IF outcome = "ok" THEN "ready" ELSE "exited"
  /\ UNCHANGED <<process, user_input, k, caller_k, req, calls, query, expanded, hits,
                 hits1, hits2, note, llm, _DEFAULT_LLM, answer, raised, response,
                 replies, trace, env, prev, replay>>
  /\ UNCHANGED aux

\* bot.py main line 59: dp.start_polling, from here on updates are handled
StartPolling ==
  /\ process = "bot"
  /\ pc = "ready"
  /\ pc' = "idle"
  /\ UNCHANGED <<process, user_input, k, caller_k, req, calls, query, expanded, hits,
                 hits1, hits2, note, llm, _DEFAULT_LLM, _retriever, answer, raised,
                 response, replies, trace, env, prev, replay>>
  /\ UNCHANGED aux

\* handle_query lines 84-99: the guards and the typing indicator
HandleQuery ==
  /\ process = "bot"
  /\ pc = "idle"
  /\ \E text \in Inputs, typing_ok \in BOOLEAN :
       /\ NewTurn(text, DefaultK)
       /\ IF _retriever = None
            THEN /\ pc' = "done"
                 /\ replies' = <<"not_loaded">>
                 /\ raised' = None
            ELSE IF text = <<>> \/ IsBlank(text)
                   THEN /\ pc' = "done"
                        /\ replies' = <<>>
                        /\ raised' = None
                   ELSE IF typing_ok
                          THEN /\ pc' = "bot_retrieve"
                               /\ replies' = <<>>
                               /\ raised' = None
                          ELSE /\ pc' = "done"
                               /\ replies' = <<>>
                               /\ raised' = Some("TelegramError")
  /\ req' = None
  /\ prev' = None
  /\ replay' = None
  /\ UNCHANGED <<process, _DEFAULT_LLM, _retriever>>
  /\ UNCHANGED aux

\* handle_query lines 101-115: retrieval and the no-hits reply
BotRetrieve ==
  /\ pc = "bot_retrieve"
  /\ \E ranked \in Present("ranked1", RankedLists) :
       /\ env' = [env EXCEPT !.ranked1 = Some(ranked)]
       /\ trace' = Append(trace, Event("retrieve", SearchCall(user_input, DefaultK)))
       /\ hits' = search(ranked, DefaultK)
       /\ hits1' = Some(search(ranked, DefaultK))
       /\ IF search(ranked, DefaultK) = <<>>
            THEN /\ replies' = <<"no_hits">>
                 /\ pc' = "done"
            ELSE /\ replies' = replies
                 /\ pc' = "format_answer"
  /\ UNCHANGED <<process, user_input, k, caller_k, req, calls, query, expanded, hits2,
                 note, llm, _DEFAULT_LLM, _retriever, answer, raised, response,
                 prev, replay>>
  /\ UNCHANGED aux

\* handle_query lines 119-140: send the answer, or the except branch's message
BotReply ==
  /\ process = "bot"
  /\ pc = "return"
  /\ IF raised # None
       THEN /\ replies' = Append(replies, "error")
            /\ raised' = None
       ELSE /\ replies' = Append(replies, "answer")
            /\ raised' = raised
  /\ pc' = "done"
  /\ UNCHANGED <<process, user_input, k, caller_k, req, calls, query, expanded, hits,
                 hits1, hits2, note, llm, _DEFAULT_LLM, _retriever, answer, response,
                 trace, env, prev, replay>>
  /\ UNCHANGED aux

\* the turn is over: its locals are gone, the process awaits the next input
Finish ==
  /\ pc = "done"
  /\ NewTurn(<<>>, DefaultK)
  /\ pc' = "idle"
  /\ req' = None
  /\ prev' = None
  /\ replay' = None
  /\ UNCHANGED <<process, _DEFAULT_LLM, _retriever>>
  /\ UNCHANGED aux

(***************************************************************************)
(* Specifications                                                          *)
(***************************************************************************)
Next ==
  \/ RunStart
  \/ AskStart
  \/ Plan
  \/ GetNote
  \/ FirstSearch
  \/ CheckHits
  \/ SecondSearch
  \/ FormatAnswer
  \/ GetLLM
  \/ Chat
  \/ RunReturn
  \/ AskRespond
  \/ InitRetriever
  \/ StartPolling
  \/ HandleQuery
  \/ BotRetrieve
  \/ BotReply
  \/ Finish

Spec == Init /\ [][Next]_vars

\* POST /ask twice: the same question in the same environment, another k
AskAgain ==
  /\ process = "server"
  /\ pc = "done"
  /\ replay = None
  /\ prev # None
  /\ \E k_field \in KFields :
       LET r == AskRequest(prev[1].req.question, k_field)
       IN  /\ r.k # prev[1].req.k
           /\ req' = Some(r)
           /\ NewTurn(r.question, AskK(r))
  /\ pc' = "plan"
  /\ replay' = Some(prev[1].env)
  /\ UNCHANGED <<process, _DEFAULT_LLM, _retriever, prev>>
  /\ UNCHANGED aux

InitAsk == Init /\ process = "server"

NextAsk ==
  \/ AskStart
  \/ AskAgain
  \/ Plan
  \/ GetNote
  \/ FirstSearch
  \/ CheckHits
  \/ SecondSearch
  \/ FormatAnswer
  \/ GetLLM
  \/ Chat
  \/ AskRespond
  \/ Finish

SpecAsk == InitAsk /\ [][NextAsk]_vars

(***************************************************************************)
(* get_default_llm called from the request threads of one server process.  *)
(* POST /ask is a plain def, so each request runs on a pool thread; a      *)
(* thread may be preempted between any two accesses of ka.llm._DEFAULT_LLM.*)
(***************************************************************************)
turn_vars == <<process, pc, user_input, k, caller_k, req, calls, query, expanded, hits,
               hits1, hits2, note, llm, _retriever, answer, raised, response, replies,
               trace, env, prev, replay>>

\* answer_with_llm line 73: a request thread enters get_default_llm
LLMCall(t) ==
  /\ t_pc[t] = "idle"
  /\ t_pc' = [t_pc EXCEPT ![t] = "check"]
  /\ t_client' = [t_client EXCEPT ![t] = None]
  /\ t_result' = [t_result EXCEPT ![t] = None]
  /\ UNCHANGED <<_DEFAULT_LLM, constructed, returned, turn_vars, not_llm>>

\* line 75: if _DEFAULT_LLM is not None
LLMCheck(t) ==
  /\ t_pc[t] = "check"
  /\ t_pc' = [t_pc EXCEPT ![t] = IF _DEFAULT_LLM # None THEN "return" ELSE "read_env"]
  /\ UNCHANGED <<_DEFAULT_LLM, t_client, t_result, constructed, returned, turn_vars, not_llm>>

\* lines 78-92: the environment is read; a blank key raises RuntimeError
LLMReadEnv(t) ==
  /\ t_pc[t] = "read_env"
  /\ \E api_key \in ApiKeys :
       IF Strip(api_key, {" "}) = <<>>
         THEN /\ t_result' = [t_result EXCEPT ![t] =
                                Some([client |-> None, raised |-> Some("RuntimeError")])]
              /\ t_pc' = [t_pc EXCEPT ![t] = "idle"]
         ELSE /\ t_result' = t_result
              /\ t_pc' = [t_pc EXCEPT ![t] = "construct"]
  /\ UNCHANGED <<_DEFAULT_LLM, t_client, constructed, returned, turn_vars, not_llm>>

\* line 95, right-hand side: LLMClient(LLMConfig(...))
LLMConstruct(t) ==
  /\ t_pc[t] = "construct"
  /\ constructed' = constructed + 1
  /\ t_client' = [t_client EXCEPT ![t] = Some(LLMClient(constructed + 1))]
  /\ t_pc' = [t_pc EXCEPT ![t] = "assign"]
  /\ UNCHANGED <<_DEFAULT_LLM, t_result, returned, turn_vars, not_llm>>

\* line 95, the store into the global
LLMAssign(t) ==
  /\ t_pc[t] = "assign"
  /\ _DEFAULT_LLM' = t_client[t]
  /\ t_pc' = [t_pc EXCEPT ![t] = "return"]
  /\ UNCHANGED <<t_client, t_result, constructed, returned, turn_vars, not_llm>>

\* lines 76 and 96: return _DEFAULT_LLM, a read of the global
LLMReturn(t) ==
  /\ t_pc[t] = "return"
  /\ t_result' = [t_result EXCEPT ![t] = Some([client |-> _DEFAULT_LLM, raised |-> None])]
  /\ returned' = returned \cup {_DEFAULT_LLM[1]}
  /\ t_pc' = [t_pc EXCEPT ![t] = "idle"]
  /\ UNCHANGED <<_DEFAULT_LLM, t_client, constructed, turn_vars, not_llm>>

InitLLM == Init /\ process = "server"

NextLLM ==
  \/ \E t \in Threads : LLMCall(t)
  \/ \E t \in Threads : LLMCheck(t)
  \/ \E t \in Threads : LLMReadEnv(t)
  \/ \E t \in Threads : LLMConstruct(t)
  \/ \E t \in Threads : LLMAssign(t)
  \/ \E t \in Threads : LLMReturn(t)

SpecLLM == InitLLM /\ [][NextLLM]_vars

(***************************************************************************)
(* ka/vector_index.py: the two index variants, their files, and            *)
(* ka/indexing.py build_index.                                             *)
(* A vector is a sequence of dim numbers; a 2-D array is its shape and its *)
(* rows.  The payload dictionary of the approximate index has the keys     *)
(* 0..n-1 and is written as the sequence of its values.                    *)
(***************************************************************************)
Chunks == 1..MaxChunks
Dims == 1..MaxDim

\* the chunk lists of a build: non-empty, chunk ids distinct
Corpora ==
  {c \in UNION {[1..n -> Chunks] : n \in 1..MaxChunks} :
     \A i, j \in DOMAIN c : c[i] = c[j] => i = j}

\* the payload build_index stores for a chunk (indexing.py 46-57)
Payload(c) == [chunk_id |-> c]
Payloads(corpus) == [i \in DOMAIN corpus |-> Payload(corpus[i])]

\* the embedder's vector for a chunk's passage: distinct chunks, distinct vectors
Embed(c, dim) == [i \in 1..dim |-> c]
Array(corpus, dim) ==
  [shape |-> <<Len(corpus), dim>>, rows |-> [i \in DOMAIN corpus |-> Embed(corpus[i], dim)]]

HnswIndex(dim) ==
  [kind |-> "hnsw", dim |-> dim, vectors |-> Some(<<>>), payload |-> <<>>,
   ids |-> Some(<<>>), next_id |-> Some(0)]

BruteForceIndex(dim) ==
  [kind |-> "bruteforce", dim |-> dim, vectors |-> None, payload |-> <<>>,
   ids |-> None, next_id |-> None]

\* create_best_index: HnswIndex(dim) unless its constructor raises (no hnswlib)
create_best_index(dim, hnswlib) ==
  IF hnswlib THEN HnswIndex(dim) ELSE BruteForceIndex(dim)

Stored(ix) == IF ix.vectors = None THEN <<>> ELSE ix.vectors[1]

NewIds_from_zero(next_id, n) == [i \in 1..n |-> i - 1]

\* HnswIndex.add line 43: np.arange(self._next_id, self._next_id + n)
NewIds(next_id, n) == [i \in 1..n |-> next_id + i - 1]

\* HnswIndex.add lines 54-55: self._payload[int(i)] = p for the zip of ids and
\* payloads; BruteForceIndex.add line 141: self._payload.extend(payloads)
PayloadAfterAdd(ix, vectors, payloads) ==
  IF ix.kind = "hnsw"
    THEN DictPutAll([ids |-> ix.ids[1], payload |-> ix.payload],
                    NewIds(ix.next_id[1], vectors.shape[1]), payloads)
    ELSE [ids |-> <<>>, payload |-> ix.payload \o payloads]

add_unchecked_length(ix, vectors, payloads) ==
  IF Len(vectors.shape) # 2 \/ vectors.shape[2] # ix.dim
    THEN [index |-> ix, raised |-> Some("ValueError")]
  ELSE [index |-> [ix EXCEPT !.vectors = Some(Stored(ix) \o vectors.rows),
                             !.payload = PayloadAfterAdd(ix, vectors, payloads).payload,
                             !.ids = IF ix.kind = "hnsw"
                                       THEN Some(PayloadAfterAdd(ix, vectors, payloads).ids)
                                       ELSE @,
                             !.next_id = IF ix.kind = "hnsw"
                                           THEN Some(@[1] + vectors.shape[1]) ELSE @],
        raised |-> None]

\* HnswIndex.add (38-57) and BruteForceIndex.add (134-141)
add(ix, vectors, payloads) ==
  IF Len(vectors.shape) # 2 \/ vectors.shape[2] # ix.dim
    THEN [index |-> ix, raised |-> Some("ValueError")]
  ELSE IF Len(payloads) # vectors.shape[1]
    THEN [index |-> ix, raised |-> Some("ValueError")]
  ELSE [index |-> [ix EXCEPT !.vectors = Some(Stored(ix) \o vectors.rows),
                             !.payload = PayloadAfterAdd(ix, vectors, payloads).payload,
                             !.ids = IF ix.kind = "hnsw"
                                       THEN Some(PayloadAfterAdd(ix, vectors, payloads).ids)
                                       ELSE @,
                             !.next_id = IF ix.kind = "hnsw"
                                           THEN Some(@[1] + vectors.shape[1]) ELSE @],
        raised |-> None]

\* HnswIndex.save (76-91) and BruteForceIndex.save (158-173)
save(ix, dir, embed_model) ==
  IF ix.kind = "hnsw"
    THEN [files |-> [dir EXCEPT
                       !.hnsw_index = Some([dim |-> ix.dim, items |-> Stored(ix)]),
                       !.meta = Some([kind |-> None, dim |-> ix.dim,
                                      embed_model |-> embed_model,
                                      payload |-> Some(ix.payload),
                                      payload_keys |->
                                        Some([i \in 1..Len(ix.ids[1]) |->
                                                Decimal(ix.ids[1][i])])])],
          raised |-> None]
  ELSE IF ix.vectors = None
    THEN [files |-> dir, raised |-> Some("ValueError")]
  ELSE [files |-> [dir EXCEPT
                     !.vectors_npy = Some(Stored(ix)),
                     !.payload_jsonl = Some(ix.payload),
                     !.meta = Some([kind |-> Some("bruteforce"), dim |-> ix.dim,
                                    embed_model |-> embed_model, payload |-> None,
                                    payload_keys |-> None])],
        raised |-> None]

\* what the environment does to a load: the import of hnswlib and load_index
\* for the approximate index, np.load and the JSON parsing for the exact one
HnswOutcomes == {"ok", "ImportError", "RuntimeError"}
ExactOutcomes == {"ok", "ValueError"}

\* max(idx._payload.keys())
MaxKey(ids) ==
  CHOOSE m \in {ids[i] : i \in 1..Len(ids)} : \A i \in 1..Len(ids) : ids[i] <= m

\* HnswIndex.load (93-117)
HnswIndex_load(dir, outcome) ==
  IF dir.hnsw_index = None \/ dir.meta = None
    THEN [index |-> None, raised |-> Some("FileNotFoundError")]
  ELSE IF outcome # "ok"
    THEN [index |-> None, raised |-> Some(outcome)]
  ELSE LET meta == dir.meta[1]
           loaded == IF meta.payload = None
                       THEN [ids |-> <<>>, payload |-> <<>>]
                       ELSE DictPutAll([ids |-> <<>>, payload |-> <<>>],
                                       [i \in 1..Len(meta.payload_keys[1]) |->
                                          ParseInt(meta.payload_keys[1][i])],
                                       meta.payload[1])
       IN  [index |-> Some([kind |-> "hnsw", dim |-> meta.dim,
                            vectors |-> Some(dir.hnsw_index[1].items),
                            payload |-> loaded.payload,
                            ids |-> Some(loaded.ids),
                            next_id |-> Some(IF loaded.ids = <<>> THEN 0
                                             ELSE MaxKey(loaded.ids) + 1)]),
            raised |-> None]

\* BruteForceIndex.load (175-198)
BruteForceIndex_load(dir, outcome) ==
  IF dir.vectors_npy = None \/ dir.payload_jsonl = None \/ dir.meta = None
    THEN [index |-> None, raised |-> Some("FileNotFoundError")]
  ELSE IF outcome # "ok"
    THEN [index |-> None, raised |-> Some(outcome)]
  ELSE [index |-> Some([kind |-> "bruteforce", dim |-> dir.meta[1].dim,
                        vectors |-> Some(dir.vectors_npy[1]),
                        payload |-> dir.payload_jsonl[1],
                        ids |-> None,
                        next_id |-> None]),
        raised |-> None]

Attempt(r, attempts) == [index |-> r.index, raised |-> r.raised, attempts |-> attempts]

load_best_index_nocatch(dir, hnsw_outcome, exact_outcome) ==
  IF dir.hnsw_index # None /\ dir.meta # None
    THEN Attempt(HnswIndex_load(dir, hnsw_outcome), <<"hnsw">>)
    ELSE Attempt(BruteForceIndex_load(dir, exact_outcome), <<"bruteforce">>)

\* load_best_index (213-220)
load_best_index(dir, hnsw_outcome, exact_outcome) ==
  IF dir.hnsw_index # None /\ dir.meta # None
    THEN LET r == HnswIndex_load(dir, hnsw_outcome)
         IN  IF r.raised = None
               THEN Attempt(r, <<"hnsw">>)
               ELSE Attempt(BruteForceIndex_load(dir, exact_outcome),
                            <<"hnsw", "bruteforce">>)
    ELSE Attempt(BruteForceIndex_load(dir, exact_outcome), <<"bruteforce">>)

\* HnswIndex.search (62-74) and BruteForceIndex.search (143-156), the top hit:
\* a stored vector equal to the query is the nearest one
Nearest(vs, q) ==
  IF \E i \in DOMAIN vs : vs[i] = q
    THEN CHOOSE i \in DOMAIN vs : vs[i] = q /\ \A j \in DOMAIN vs : vs[j] = q => i <= j
    ELSE 1

index_search(ix, q) ==
  IF ix.kind = "bruteforce" /\ (ix.vectors = None \/ ix.payload = <<>>)
    THEN [top |-> None, raised |-> None]
  ELSE IF Stored(ix) = <<>>
    THEN [top |-> None, raised |-> Some(IF ix.kind = "hnsw" THEN "RuntimeError" ELSE "ValueError")]
  ELSE IF ix.kind = "hnsw"
    THEN LET lab == Nearest(Stored(ix), q) - 1
         IN  IF \E i \in 1..Len(ix.ids[1]) : ix.ids[1][i] = lab
               THEN [top |-> Some(ix.payload[CHOOSE i \in 1..Len(ix.ids[1]) :
                                               ix.ids[1][i] = lab]),
                     raised |-> None]
               ELSE [top |-> None, raised |-> Some("KeyError")]
  ELSE IF Nearest(Stored(ix), q) > Len(ix.payload)
    THEN [top |-> None, raised |-> Some("IndexError")]
  ELSE [top |-> Some(ix.payload[Nearest(Stored(ix), q)]), raised |-> None]

EmbedModel == "embed_model"

\* the arguments of an add call: an array of any row and column count with a
\* payload list of any length
AddCorpora == {[i \in 1..n |-> i] : n \in 0..MaxChunks}
AddArrays == {Array(c, d) : c \in AddCorpora, d \in Dims}
AddPayloads == {Payloads(c) : c \in AddCorpora}

\* create_best_index(dim)
CreateBestIndex ==
  /\ \E dim \in Dims, hnswlib \in BOOLEAN :
       /\ index' = Some(create_best_index(dim, hnswlib))
       /\ ix_op' = [op |-> "create_best_index", dim |-> dim, hnswlib |-> hnswlib,
                    raised |-> None]
  /\ ix_before' = index
  /\ UNCHANGED <<files, last_build, agent_vars, not_index>>

\* index.add(vectors, payloads)
IndexAdd ==
  /\ index # None
  /\ \E vectors \in AddArrays, payloads \in AddPayloads :
       /\ Len(Stored(index[1])) + vectors.shape[1] <= MaxStored
       /\ Len(index[1].payload) + Len(payloads) <= MaxStored
       /\ LET r == add(index[1], vectors, payloads)
          IN  /\ index' = Some(r.index)
              /\ ix_op' = [op |-> "add", vectors |-> vectors, payloads |-> payloads,
                           raised |-> r.raised]
  /\ ix_before' = index
  /\ UNCHANGED <<files, last_build, agent_vars, not_index>>

\* indexing.py build_index: rows read, embedded, added to a new index, saved
BuildIndex ==
  /\ \E corpus \in Corpora \cup {<<>>}, dim \in Dims, hnswlib \in BOOLEAN :
       IF corpus = <<>>
         THEN /\ ix_op' = [op |-> "build_index", corpus |-> corpus,
                           raised |-> Some("SystemExit")]
              /\ UNCHANGED <<files, last_build>>
         ELSE LET idx == create_best_index(dim, hnswlib)
                  added == add(idx, Array(corpus, dim), Payloads(corpus))
                  saved == save(added.index, files, EmbedModel)
              IN  /\ ix_op' = [op |-> "build_index", corpus |-> corpus,
                               raised |-> saved.raised]
                  /\ files' = saved.files
                  /\ last_build' = Some(corpus)
  /\ index' = None
  /\ ix_before' = None
  /\ UNCHANGED <<agent_vars, not_index>>

\* load_best_index(out_dir), as Retriever.__init__ calls it
LoadBestIndex ==
  /\ \E hnsw_outcome \in HnswOutcomes, exact_outcome \in ExactOutcomes :
       LET r == load_best_index(files, hnsw_outcome, exact_outcome)
       IN  /\ index' = r.index
           /\ ix_op' = [op |-> "load_best_index", hnsw |-> hnsw_outcome,
                        exact |-> exact_outcome, attempts |-> r.attempts,
                        raised |-> r.raised]
  /\ ix_before' = index
  /\ UNCHANGED <<files, last_build, agent_vars, not_index>>

\* the index class used directly: create, then any adds
NextIndexAdd ==
  \/ CreateBestIndex
  \/ IndexAdd

SpecIndexAdd == Init /\ [][NextIndexAdd]_vars

\* a directory holding any of the four files, each as some save wrote it
SavedBy(kind, corpus, dim) ==
  save(add(IF kind = "hnsw" THEN HnswIndex(dim) ELSE BruteForceIndex(dim),
           Array(corpus, dim), Payloads(corpus)).index, NoFiles, EmbedModel).files

Directories ==
  {[hnsw_index |-> IF "hnsw.index" \in present
                     THEN SavedBy("hnsw", c[1], d[1]).hnsw_index ELSE None,
    meta |-> IF "meta.json" \in present
               THEN SavedBy(meta_kind, c[1], d[1]).meta ELSE None,
    vectors_npy |-> IF "vectors.npy" \in present
                      THEN SavedBy("bruteforce", c[2], d[2]).vectors_npy ELSE None,
    payload_jsonl |-> IF "payload.jsonl" \in present
                        THEN SavedBy("bruteforce", c[2], d[2]).payload_jsonl ELSE None] :
     present \in SUBSET {"hnsw.index", "meta.json", "vectors.npy", "payload.jsonl"},
     meta_kind \in {"hnsw", "bruteforce"},
     c \in Corpora \X Corpora, d \in Dims \X Dims}

InitLoad ==
  /\ AgentInit
  /\ AuxInitExcept("index")
  /\ index = None
  /\ files \in Directories
  /\ ix_op = [op |-> "none"]
  /\ ix_before = None
  /\ last_build = None

NextLoad ==
  \/ LoadBestIndex

SpecLoad == InitLoad /\ [][NextLoad]_vars

\* builds into one directory, and loads of it
NextBuild ==
  \/ BuildIndex
  \/ LoadBestIndex

SpecBuild == Init /\ [][NextBuild]_vars

(***************************************************************************)
(* scripts/preprocess_obsidian.py: the sentence-aware chunker.             *)
(* The cleaned section text is the sequence of its words (clean_markdown   *)
(* leaves single spaces between them), so joining with " " is              *)
(* concatenation and count_words is Len.  A word records its place in the  *)
(* section and whether it ends in one of . ! ? followed by a space or the  *)
(* end of the text.                                                        *)
(***************************************************************************)
Word(i, end) == [id |-> i, end |-> end]

SectionTexts ==
  {[i \in 1..n |-> Word(i, i \in stops)] : n \in 0..MaxWords, stops \in SUBSET (1..MaxWords)}

ChunkSizes == 0..MaxChunkSize
Overlaps == 0..MaxOverlap
NoteIds == {<<"a">>, <<"b">>}

RECURSIVE Sentences(_, _)
Sentences(words, sent) ==
  IF words = <<>> THEN (IF sent = <<>> THEN <<>> ELSE <<sent>>)
  ELSE IF Head(words).end
    THEN <<Append(sent, Head(words))>> \o Sentences(Tail(words), <<>>)
  ELSE Sentences(Tail(words), Append(sent, Head(words)))

\* split_into_sentences (36-61): the runs that end in a terminator, then the tail
split_into_sentences(text) == Sentences(text, <<>>)

\* " ".join(parts)
RECURSIVE JoinWords(_)
JoinWords(parts) ==
  IF parts = <<>> THEN <<>> ELSE Head(parts) \o JoinWords(Tail(parts))

count_words(s) == Len(s)

OverlapWords_head(words, overlap) ==
  IF Len(words) > overlap THEN SubSeq(words, 1, overlap) ELSE words

\* chunk_text lines 111-115: the last overlap words, or all of them
OverlapWords(words, overlap) ==
  IF Len(words) > overlap
    THEN SubSeq(words, Len(words) - overlap + 1, Len(words))
    ELSE words

\* chunk_text lines 83-123: the loop body for one sentence
ChunkStep(st, sent, chunk_size, overlap) ==
  LET sent_tokens == count_words(sent)
  IN  IF sent_tokens >= chunk_size
        THEN [chunks |-> (IF st.current_sentences # <<>>
                            THEN Append(st.chunks, JoinWords(st.current_sentences))
                            ELSE st.chunks) \o <<sent>>,
              current_sentences |-> IF st.current_sentences # <<>>
                                      THEN <<>> ELSE st.current_sentences,
              current_tokens |-> IF st.current_sentences # <<>>
                                   THEN 0 ELSE st.current_tokens]
      ELSE IF st.current_tokens + sent_tokens <= chunk_size
        THEN [chunks |-> st.chunks,
              current_sentences |-> Append(st.current_sentences, sent),
              current_tokens |-> st.current_tokens + sent_tokens]
      ELSE IF st.current_sentences # <<>>
        THEN IF overlap > 0
               THEN LET merged == JoinWords(st.current_sentences)
                        overlap_text == OverlapWords(merged, overlap)
                    IN  [chunks |-> Append(st.chunks, merged),
                         current_sentences |-> <<overlap_text, sent>>,
                         current_tokens |-> count_words(overlap_text) + sent_tokens]
               ELSE [chunks |-> Append(st.chunks, JoinWords(st.current_sentences)),
                     current_sentences |-> <<sent>>,
                     current_tokens |-> sent_tokens]
      ELSE [chunks |-> st.chunks,
            current_sentences |-> <<sent>>,
            current_tokens |-> sent_tokens]

RECURSIVE ChunkLoop(_, _, _, _)
ChunkLoop(sentences, st, chunk_size, overlap) ==
  IF sentences = <<>> THEN st
  ELSE ChunkLoop(Tail(sentences), ChunkStep(st, Head(sentences), chunk_size, overlap),
                 chunk_size, overlap)

\* chunk_text (64-129)
chunk_text(text, chunk_size, overlap) ==
  LET sentences == split_into_sentences(text)
      st == ChunkLoop(sentences,
                      [chunks |-> <<>>, current_sentences |-> <<>>, current_tokens |-> 0],
                      chunk_size, overlap)
  IN  IF sentences = <<>> THEN <<>>
      ELSE IF st.current_sentences # <<>>
        THEN Append(st.chunks, JoinWords(st.current_sentences))
      ELSE st.chunks

\* f"{note_id}#{chunk_index}"
ChunkId(id, n) == id \o <<"#">> \o Decimal(n)

NoteDone == sec_i = n_sections /\ raw_i = Len(raw_chunks)

\* main lines 230-249: the next note is read, chunk_index = 0, its sections split
ReadNote ==
  /\ args # None
  /\ chunk_note_id = None \/ NoteDone
  /\ \E id \in NoteIds, n \in 1..MaxSections :
       /\ chunk_note_id' = Some(id)
       /\ n_sections' = n
  /\ chunk_index' = 0
  /\ sec_i' = 0
  /\ section_text' = <<>>
  /\ raw_chunks' = <<>>
  /\ raw_i' = 0
  /\ out_chunks' = <<>>
  /\ UNCHANGED <<args, agent_vars, not_chunk>>

ChunkSection_reset ==
  /\ chunk_note_id # None
  /\ raw_i = Len(raw_chunks)
  /\ sec_i < n_sections
  /\ \E text \in SectionTexts :
       /\ section_text' = text
       /\ raw_chunks' = chunk_text(text, args[1].chunk_size, args[1].overlap)
  /\ sec_i' = sec_i + 1
  /\ raw_i' = 0
  /\ chunk_index' = 0
  /\ UNCHANGED <<args, chunk_note_id, n_sections, out_chunks, agent_vars, not_chunk>>

\* main lines 253-254: chunk_text is called for the next section
ChunkSection ==
  /\ chunk_note_id # None
  /\ raw_i = Len(raw_chunks)
  /\ sec_i < n_sections
  /\ \E text \in SectionTexts :
       /\ section_text' = text
       /\ raw_chunks' = chunk_text(text, args[1].chunk_size, args[1].overlap)
  /\ sec_i' = sec_i + 1
  /\ raw_i' = 0
  /\ UNCHANGED <<args, chunk_note_id, n_sections, chunk_index, out_chunks, agent_vars,
                 not_chunk>>

\* main lines 255-276: one pass of the inner loop
EmitChunk ==
  /\ chunk_note_id # None
  /\ raw_i < Len(raw_chunks)
  /\ raw_i' = raw_i + 1
  /\ IF raw_chunks[raw_i + 1] = <<>>
       THEN UNCHANGED <<chunk_index, out_chunks>>
       ELSE /\ chunk_index' = chunk_index + 1
            /\ out_chunks' = Append(out_chunks,
                 [chunk_id |-> ChunkId(chunk_note_id[1], chunk_index + 1),
                  note_id |-> chunk_note_id[1],
                  section |-> sec_i,
                  position |-> chunk_index + 1])
  /\ UNCHANGED <<args, chunk_note_id, n_sections, sec_i, section_text, raw_chunks,
                 agent_vars, not_chunk>>

InitChunk ==
  /\ AgentInit
  /\ AuxInitExcept("chunk")
  /\ args \in {Some([chunk_size |-> c, overlap |-> o]) : c \in ChunkSizes, o \in Overlaps}
  /\ ChunkIdle

NextChunk ==
  \/ ReadNote
  \/ ChunkSection
  \/ EmitChunk

SpecChunk == InitChunk /\ [][NextChunk]_vars

(***************************************************************************)
(* ka/retriever.py: Retriever.retrieve lines 98-117 and                    *)
(* _diversify_by_note.  A candidate is its rank in the sorted list and its *)
(* note_id as text; a payload without note_id has the empty text, as       *)
(* str(p.get("note_id", "") or "") makes it.                               *)
(***************************************************************************)
CandidateNotes == {<<>>, <<"a">>, <<"b">>}

\* the lists line 98 can leave: any notes, in rank order
SortedLists ==
  {[i \in 1..n |-> [rank |-> i, note_id |-> notes[i]]] :
     n \in 0..MaxCandidates, notes \in [1..MaxCandidates -> CandidateNotes]}

Caps == 0..MaxCap
TopKs == {0, 1, DefaultK}

Max(a, b) == IF a >= b THEN a ELSE b

CountOf(counts, id) == IF id \in DOMAIN counts THEN counts[id] ELSE 0

RECURSIVE DiversifyLoop_inclusive(_, _, _, _)
DiversifyLoop_inclusive(hs, counts, kept, max_per_note) ==
  IF hs = <<>> THEN kept
  ELSE LET p == Head(hs)
           c == CountOf(counts, p.note_id)
       IN  IF p.note_id = <<>>
             THEN DiversifyLoop_inclusive(Tail(hs), counts, Append(kept, p), max_per_note)
           ELSE IF c > max_per_note
             THEN DiversifyLoop_inclusive(Tail(hs), counts, kept, max_per_note)
           ELSE DiversifyLoop_inclusive(Tail(hs),
                  [id \in DOMAIN counts \cup {p.note_id} |->
                     IF id = p.note_id THEN c + 1 ELSE counts[id]],
                  Append(kept, p), max_per_note)

\* _diversify_by_note lines 292-301: the loop over hits
RECURSIVE DiversifyLoop(_, _, _, _)
DiversifyLoop(hs, counts, kept, max_per_note) ==
  IF hs = <<>> THEN kept
  ELSE LET p == Head(hs)
           c == CountOf(counts, p.note_id)
       IN  IF p.note_id = <<>>
             THEN DiversifyLoop(Tail(hs), counts, Append(kept, p), max_per_note)
           ELSE IF c >= max_per_note
             THEN DiversifyLoop(Tail(hs), counts, kept, max_per_note)
           ELSE DiversifyLoop(Tail(hs),
                  [id \in DOMAIN counts \cup {p.note_id} |->
                     IF id = p.note_id THEN c + 1 ELSE counts[id]],
                  Append(kept, p), max_per_note)

\* _diversify_by_note (285-302)
_diversify_by_note(hs, max_per_note) ==
  DiversifyLoop(hs, <<>>, <<>>, Max(1, max_per_note))

\* retrieve lines 49-98: k is clamped, the candidates are scored and sorted
HybridSort ==
  /\ hr_pc = "idle"
  /\ cfg # None
  /\ \E kk \in TopKs : top_k' = Max(1, kk)
  /\ \E hs \in SortedLists :
       /\ sorted_hits' = hs
       /\ rescored' = hs
  /\ hr_pc' = "sorted"
  /\ out' = <<>>
  /\ UNCHANGED <<cfg, agent_vars, not_hybrid>>

\* retrieve lines 101-102
HybridDiversify ==
  /\ hr_pc = "sorted"
  /\ rescored' = IF cfg[1]._diversify_by_note /\ cfg[1]._max_chunks_per_note > 0
                   THEN _diversify_by_note(rescored, cfg[1]._max_chunks_per_note)
                   ELSE rescored
  /\ hr_pc' = "diversified"
  /\ UNCHANGED <<cfg, top_k, sorted_hits, out, agent_vars, not_hybrid>>

\* retrieve lines 104-117: top = rescored[:k], one RetrievalHit for each
HybridReturn ==
  /\ hr_pc = "diversified"
  /\ out' = Take(rescored, top_k)
  /\ hr_pc' = "returned"
  /\ UNCHANGED <<cfg, top_k, sorted_hits, rescored, agent_vars, not_hybrid>>

\* the call is over
HybridFinish ==
  /\ hr_pc = "returned"
  /\ top_k' = DefaultK
  /\ sorted_hits' = <<>>
  /\ rescored' = <<>>
  /\ out' = <<>>
  /\ hr_pc' = "idle"
  /\ UNCHANGED <<cfg, agent_vars, not_hybrid>>

\* Retriever.__init__ lines 44-47: the controls read from the environment
InitHybrid ==
  /\ AgentInit
  /\ AuxInitExcept("hybrid")
  /\ cfg \in {Some([_diversify_by_note |-> d, _max_chunks_per_note |-> cap]) :
               d \in BOOLEAN, cap \in Caps}
  /\ top_k = DefaultK
  /\ sorted_hits = <<>>
  /\ rescored = <<>>
  /\ hr_pc = "idle"
  /\ out = <<>>

NextHybrid ==
  \/ HybridSort
  \/ HybridDiversify
  \/ HybridReturn
  \/ HybridFinish

SpecHybrid == InitHybrid /\ [][NextHybrid]_vars

(***************************************************************************)
(* scripts/make_validation_set.py: the query derived for one chunk row     *)
(***************************************************************************)
\* the characters str.strip() removes
Whitespace == {" ", "\n"}

HelloWorld == <<"h", "e", "l", "l", "o", " ", "w", "o", "r", "l", "d">>
QueryWord == <<"q", "u", "e", "r", "y">>

\* titles and sections up to MaxTitleLen characters; texts that are empty,
\* short, and longer than the prefix taken at line 58
Titles == UNION {[1..n -> {"A", ".", " "}] : n \in 0..MaxTitleLen}
ValSections == UNION {[1..n -> {"B", ".", " "}] : n \in 0..MaxTitleLen}
ValTexts == {<<>>, HelloWorld, [i \in 1..(TextPrefix + 1) |-> "x"]}
ValRows ==
  {[title |-> t, section |-> s, text |-> x, note_id |-> <<"n">>, chunk_id |-> <<"c">>] :
     t \in Titles, s \in ValSections, x \in ValTexts}

derive_query_nofallback(title, section, text) ==
  Strip(Strip(title \o <<".", " ">> \o section, {".", " "}), Whitespace)

\* lines 56-58
derive_query(title, section, text) ==
  LET q == Strip(Strip(title \o <<".", " ">> \o section, {".", " "}), Whitespace)
  IN  IF Len(q) < QueryMinLen
        THEN IF title # <<>> THEN title
             ELSE IF section # <<>> THEN section
             ELSE IF text # <<>> THEN SubSeq(text, 1, IF TextPrefix < Len(text)
                                                        THEN TextPrefix ELSE Len(text))
             ELSE QueryWord
        ELSE q

\* lines 46-66: one turn of the loop over the sampled rows
DeriveExample ==
  /\ val_row # None
  /\ val_example = None
  /\ LET r == val_row[1]
     IN  val_example' = Some([query |-> derive_query(r.title, r.section, r.text),
                              expected_note_id |-> r.note_id,
                              expected_chunk_id |-> r.chunk_id])
  /\ UNCHANGED <<val_row, agent_vars, not_val>>

InitVal ==
  /\ AgentInit
  /\ AuxInitExcept("val")
  /\ val_row \in {Some(r) : r \in ValRows}
  /\ val_example = None

NextVal ==
  \/ DeriveExample

SpecVal == InitVal /\ [][NextVal]_vars

(***************************************************************************)
(* telegram_bot/utils/formatter.py split_long_message and                  *)
(* telegram_bot/handlers/query.py handle_query lines 99-140, entered with  *)
(* the retriever set and a text that is not blank.  handle_query passes    *)
(* max_length=4000; the model also runs it with the limits 0..MaxLimit, so *)
(* that short texts go through the packing loop.                           *)
(***************************************************************************)
Rep(ch, n) == [i \in 1..n |-> ch]

\* str.split("\n")
NewlinesOf(s) == {i \in 1..Len(s) : s[i] = "\n"}

SplitLines(s) ==
  LET nl == NewlinesOf(s)
      n == Cardinality(nl)
      pos(j) == IF j = 0 THEN 0
                ELSE IF j = n + 1 THEN Len(s) + 1
                ELSE CHOOSE i \in nl : Cardinality({m \in nl : m < i}) = j - 1
  IN  [j \in 1..(n + 1) |-> SubSeq(s, pos(j - 1) + 1, pos(j) - 1)]

SplitStep_noseparator(st, line, max_length) ==
  IF Len(st.current) + Len(line) > max_length
    THEN [chunks |-> IF st.current # <<>>
                       THEN Append(st.chunks, Strip(st.current, Whitespace))
                       ELSE st.chunks,
          current |-> line]
    ELSE [chunks |-> st.chunks,
          current |-> IF st.current # <<>> THEN st.current \o <<"\n">> \o line ELSE line]

\* formatter.py lines 103-108: one turn of the loop over the lines
SplitStep(st, line, max_length) ==
  IF Len(st.current) + Len(line) + 1 > max_length
    THEN [chunks |-> IF st.current # <<>>
                       THEN Append(st.chunks, Strip(st.current, Whitespace))
                       ELSE st.chunks,
          current |-> line]
    ELSE [chunks |-> st.chunks,
          current |-> IF st.current # <<>> THEN st.current \o <<"\n">> \o line ELSE line]

RECURSIVE SplitLoop(_, _, _)
SplitLoop(lines, st, max_length) ==
  IF lines = <<>> THEN st
  ELSE SplitLoop(Tail(lines), SplitStep(st, Head(lines), max_length), max_length)

\* formatter.py lines 85-113
split_long_message(text, max_length) ==
  IF Len(text) <= max_length THEN <<text>>
  ELSE LET st == SplitLoop(SplitLines(text), [chunks |-> <<>>, current |-> <<>>],
                           max_length)
       IN  IF st.current # <<>>
             THEN Append(st.chunks, Strip(st.current, Whitespace))
             ELSE st.chunks

\* the formatted answers: every text of up to MaxTextLen characters, and texts
\* around the length handle_query passes
ReplyTexts ==
  UNION {[1..n -> {"a", " ", "\n"}] : n \in 0..MaxTextLen}
  \cup {Rep("a", n) \o <<"\n", "a">> :
          n \in {TelegramMaxLength - 1, TelegramMaxLength, TelegramMaxLength + 1}}
Limits == 0..MaxLimit \cup {TelegramMaxLength}

\* str(e) of the exceptions raised: shorter and longer than the part line 137
\* quotes
Errors == {Rep("e", n) : n \in {1, ErrorPrefix + 1}}

\* "<i>(prodolzhenie)</i>\n\n", the prefix of line 129
ContinuationMarker ==
  <<"<", "i", ">", "(", "p", "r", "o", "d", "o", "l", "z", "h", "e", "n", "i", "e", ")",
    "<", "/", "i", ">", "\n", "\n">>

\* the messages handle_query sends
NoHitsReply == [kind |-> "no_hits", text |-> <<>>]
PieceReply(i, chunk) ==
  [kind |-> "answer", text |-> IF i = 1 THEN chunk ELSE ContinuationMarker \o chunk]
ErrorReply(e) ==
  [kind |-> "error",
   text |-> SubSeq(e, 1, IF ErrorPrefix < Len(e) THEN ErrorPrefix ELSE Len(e))]

\* line 99: the typing indicator, sent before the try block is entered
HqTyping ==
  /\ hq_pc = "typing"
  /\ \/ /\ hq_pc' = "retrieve"
        /\ UNCHANGED hq_escaped
     \/ \E e \in Errors :
          /\ hq_pc' = "left"
          /\ hq_escaped' = Some(e)
  /\ UNCHANGED <<hq_max_length, hq_formatted, hq_chunks, hq_i, hq_sent, hq_exc,
                 agent_vars, not_reply>>

\* lines 104-115: retrieval, and the reply sent when nothing was found
HqRetrieve ==
  /\ hq_pc = "retrieve"
  /\ \/ /\ hq_pc' = "generate"
        /\ UNCHANGED <<hq_sent, hq_exc>>
     \/ /\ hq_pc' = "returned"
        /\ hq_sent' = Append(hq_sent, NoHitsReply)
        /\ UNCHANGED hq_exc
     \/ \E e \in Errors :
          /\ hq_pc' = "except"
          /\ hq_exc' = Some(e)
          /\ UNCHANGED hq_sent
  /\ UNCHANGED <<hq_max_length, hq_formatted, hq_chunks, hq_i, hq_escaped,
                 agent_vars, not_reply>>

\* lines 119-123: format_answer, format_answer_for_telegram, split_long_message
HqFormat ==
  /\ hq_pc = "generate"
  /\ \/ \E text \in ReplyTexts :
          /\ hq_formatted' = Some(text)
          /\ hq_chunks' = Some(split_long_message(text, hq_max_length))
          /\ hq_pc' = "send"
          /\ UNCHANGED hq_exc
     \/ \E e \in Errors :
          /\ hq_pc' = "except"
          /\ hq_exc' = Some(e)
          /\ UNCHANGED <<hq_formatted, hq_chunks>>
  /\ UNCHANGED <<hq_max_length, hq_i, hq_sent, hq_escaped, agent_vars, not_reply>>

\* lines 125-129: one turn of the loop over the chunks
HqSend ==
  /\ hq_pc = "send"
  /\ hq_i < Len(hq_chunks[1])
  /\ \/ /\ hq_sent' = Append(hq_sent, PieceReply(hq_i + 1, hq_chunks[1][hq_i + 1]))
        /\ hq_i' = hq_i + 1
        /\ UNCHANGED <<hq_pc, hq_exc>>
     \/ \E e \in Errors :
          /\ hq_pc' = "except"
          /\ hq_exc' = Some(e)
          /\ UNCHANGED <<hq_sent, hq_i>>
  /\ UNCHANGED <<hq_max_length, hq_formatted, hq_chunks, hq_escaped, agent_vars,
                 not_reply>>

\* line 131: the loop is over
HqSent ==
  /\ hq_pc = "send"
  /\ hq_i = Len(hq_chunks[1])
  /\ hq_pc' = "returned"
  /\ UNCHANGED <<hq_max_length, hq_formatted, hq_chunks, hq_i, hq_sent, hq_exc,
                 hq_escaped, agent_vars, not_reply>>

\* lines 133-140: the except branch sends the failure message
HqExcept ==
  /\ hq_pc = "except"
  /\ \/ /\ hq_sent' = Append(hq_sent, ErrorReply(hq_exc[1]))
        /\ hq_pc' = "returned"
        /\ UNCHANGED hq_escaped
     \/ \E e \in Errors :
          /\ hq_pc' = "left"
          /\ hq_escaped' = Some(e)
          /\ UNCHANGED hq_sent
  /\ UNCHANGED <<hq_max_length, hq_formatted, hq_chunks, hq_i, hq_exc, agent_vars,
                 not_reply>>

\* handlers/errors.py lines 10-23: the dispatcher passes an exception that left
\* handle_query to error_handler, which sends its own message and swallows a
\* failure of that send
UnexpectedReply == [kind |-> "unexpected", text |-> <<>>]

ErrorHandler ==
  /\ hq_pc = "left"
  /\ hq_pc' = "handled"
  /\ \/ hq_sent' = Append(hq_sent, UnexpectedReply)
     \/ UNCHANGED hq_sent
  /\ UNCHANGED <<hq_max_length, hq_formatted, hq_chunks, hq_i, hq_exc, hq_escaped,
                 agent_vars, not_reply>>

InitReply ==
  /\ AgentInit
  /\ AuxInitExcept("reply")
  /\ hq_pc = "typing"
  /\ hq_max_length \in Limits
  /\ hq_formatted = None
  /\ hq_chunks = None
  /\ hq_i = 0
  /\ hq_sent = <<>>
  /\ hq_exc = None
  /\ hq_escaped = None

NextReply ==
  \/ HqTyping
  \/ HqRetrieve
  \/ HqFormat
  \/ HqSend
  \/ HqSent
  \/ HqExcept
  \/ ErrorHandler

SpecReply == InitReply /\ [][NextReply]_vars

(***************************************************************************)
(* ka/retriever.py: Retriever.retrieve lines 49-98 and _rrf_fuse.          *)
(* A fused score s is the whole number s * RrfDen(rrf_k), which is exact   *)
(* for ranks up to MaxRank; a final score is counted in twentieths of that *)
(* unit, so that the boosts 0.35, 0.10 and 0.15 and the penalty 1.0 are    *)
(* the whole numbers 7, 2, 3 and 20.                                       *)
(***************************************************************************)
RECURSIVE RrfDenUpTo(_, _)
RrfDenUpTo(rrf_k, r) == IF r = 0 THEN 1 ELSE (rrf_k + r) * RrfDenUpTo(rrf_k, r - 1)

\* the common denominator of 1 / (rrf_k + rank) for the ranks 1..MaxRank
RrfDen(rrf_k) == RrfDenUpTo(rrf_k, MaxRank)

RrfTerm_zero_based(rrf_k, rank) == RrfDen(rrf_k) \div (rrf_k + rank - 1)

\* line 216: 1.0 / (rrf_k + rank)
RrfTerm(rrf_k, rank) == RrfDen(rrf_k) \div (rrf_k + rank)

\* the payloads of the index: chunk_id (empty when the row has none), note_id,
\* and the list the payload object was returned in
FuseIds == {<<>>, <<"A">>, <<"B">>, <<"C">>}
NoteOf(cid) == IF cid = <<>> THEN <<>> ELSE IF cid = <<"C">> THEN <<"b">> ELSE <<"a">>
FusePayload(cid, src) == [chunk_id |-> cid, note_id |-> NoteOf(cid), src |-> src]

\* a search result of up to n payloads: every stored payload at most once
HitLists(n, src) ==
  {[i \in 1..m |-> FusePayload(ids[i], src)] :
     m \in 0..n,
     ids \in {f \in [1..n -> FuseIds] : \A i, j \in 1..n : f[i] = f[j] => i = j}}

RrfKs == {0, 1, DefaultRrfK}

\* lines 212-218: add(rank, p)
RrfAdd(acc, rank, p, rrf_k) ==
  IF p.chunk_id = <<>> THEN acc
  ELSE IF \E i \in 1..Len(acc) : acc[i].chunk_id = p.chunk_id
    THEN [i \in 1..Len(acc) |->
            IF acc[i].chunk_id = p.chunk_id
              THEN [acc[i] EXCEPT !.score = @ + RrfTerm(rrf_k, rank)]
              ELSE acc[i]]
  ELSE Append(acc, [score |-> RrfTerm(rrf_k, rank), chunk_id |-> p.chunk_id,
                    note_id |-> p.note_id, src |-> p.src])

\* lines 220-223: enumerate(hs, start=1)
RECURSIVE RrfAddAll(_, _, _, _)
RrfAddAll(acc, hs, rank, rrf_k) ==
  IF hs = <<>> THEN acc
  ELSE RrfAddAll(RrfAdd(acc, rank, Head(hs), rrf_k), Tail(hs), rank + 1, rrf_k)

InsertDesc_ascending(sorted, x) ==
  LET n == Cardinality({i \in 1..Len(sorted) : sorted[i].score <= x.score})
  IN  SubSeq(sorted, 1, n) \o <<x>> \o SubSeq(sorted, n + 1, Len(sorted))

\* sorted(..., key=score, reverse=True) and list.sort(key=score, reverse=True):
\* descending, entries of equal score in their former order
InsertDesc(sorted, x) ==
  LET n == Cardinality({i \in 1..Len(sorted) : sorted[i].score >= x.score})
  IN  SubSeq(sorted, 1, n) \o <<x>> \o SubSeq(sorted, n + 1, Len(sorted))

RECURSIVE SortDescFrom(_, _)
SortDescFrom(todo, sorted) ==
  IF todo = <<>> THEN sorted ELSE SortDescFrom(Tail(todo), InsertDesc(sorted, Head(todo)))

SortDesc(entries) == SortDescFrom(entries, <<>>)

\* _rrf_fuse (203-226)
_rrf_fuse(vec, bm25, rrf_k) ==
  LET kk == Max(1, rrf_k)
  IN  SortDesc(RrfAddAll(RrfAddAll(<<>>, vec, 1, kk), bm25, 1, kk))

\* what lines 64-96 find for one candidate when the query has tags and keywords:
\* the number of query tags among its tags, whether its note is linked from
\* the top vector hits, the number of query keywords in its text
CandidateFeatures ==
  {[overlap |-> 0, related |-> FALSE, ov |-> 0],
   [overlap |-> 1, related |-> TRUE, ov |-> 1]}

\* lines 68-96 for one candidate, in twentieths of the fused unit
Rescored(c, f, rrf_k) ==
  LET unit == RrfDen(Max(1, rrf_k))
      s1 == 20 * c.score + (IF f.overlap > 0 THEN TagBoost * f.overlap * unit ELSE 0)
      s2 == s1 + (IF f.related THEN GraphBoost * unit ELSE 0)
      s3 == IF f.ov = 0 THEN s2 - KeywordPenalty * unit ELSE s2 + KeywordBonus * f.ov * unit
  IN  [c EXCEPT !.score = s3]

\* lines 50-61: k is clamped and the two rankings are fused
RrfFuse ==
  /\ hr_pc = "searched"
  /\ top_k' = Max(1, req_k)
  /\ fused' = _rrf_fuse(vec_hits, bm25_hits, _rrf_k)
  /\ hr_pc' = "fused"
  /\ UNCHANGED <<cfg, sorted_hits, rescored, out, req_k, vec_hits, bm25_hits, _rrf_k,
                 agent_vars, llm_vars, index_vars, chunk_vars, val_vars, reply_vars,
                 fm_vars, eval_vars, plan_vars, embed_vars>>

\* lines 63-96: the boosts and the keyword guard
Rescore ==
  /\ hr_pc = "fused"
  /\ \E fs \in [1..Len(fused) -> CandidateFeatures] :
       rescored' = [i \in 1..Len(fused) |-> Rescored(fused[i], fs[i], _rrf_k)]
  /\ hr_pc' = "rescored"
  /\ UNCHANGED <<cfg, top_k, sorted_hits, out, agent_vars, not_hybrid>>

\* line 98
SortRescored ==
  /\ hr_pc = "rescored"
  /\ rescored' = SortDesc(rescored)
  /\ sorted_hits' = SortDesc(rescored)
  /\ hr_pc' = "sorted"
  /\ UNCHANGED <<cfg, top_k, out, agent_vars, not_hybrid>>

\* retrieve at line 58 with any two rankings of up to MaxRank payloads and any
\* KA_RRF_K: the specification of the fusion alone
InitFuse ==
  /\ AgentInit
  /\ LLMInit
  /\ IndexInit
  /\ ChunkInit
  /\ ValInit
  /\ ReplyInit
  /\ FmInit
  /\ EvalInit
  /\ PlanInit
  /\ EmbedInit
  /\ cfg = Some([_diversify_by_note |-> TRUE, _max_chunks_per_note |-> DefaultCap])
  /\ top_k = DefaultK
  /\ sorted_hits = <<>>
  /\ rescored = <<>>
  /\ hr_pc = "searched"
  /\ out = <<>>
  /\ req_k = DefaultK
  /\ vec_hits \in HitLists(MaxRank, "vec")
  /\ bm25_hits \in HitLists(MaxRank, "bm25")
  /\ _rrf_k \in RrfKs
  /\ fused = <<>>

NextFuse ==
  \/ RrfFuse

SpecFuse == InitFuse /\ [][NextFuse]_vars

\* retrieve after both searches returned (line 58)
InitRetrieve ==
  /\ AgentInit
  /\ LLMInit
  /\ IndexInit
  /\ ChunkInit
  /\ ValInit
  /\ ReplyInit
  /\ FmInit
  /\ EvalInit
  /\ PlanInit
  /\ EmbedInit
  /\ cfg \in {Some([_diversify_by_note |-> FALSE, _max_chunks_per_note |-> DefaultCap]),
              Some([_diversify_by_note |-> TRUE, _max_chunks_per_note |-> DefaultCap - 1])}
  /\ top_k = DefaultK
  /\ sorted_hits = <<>>
  /\ rescored = <<>>
  /\ hr_pc = "searched"
  /\ out = <<>>
  /\ req_k \in TopKs
  /\ vec_hits \in HitLists(MaxFuse, "vec")
  /\ bm25_hits \in HitLists(MaxFuse, "bm25")
  /\ _rrf_k = DefaultRrfK
  /\ fused = <<>>

NextRetrieve ==
  \/ RrfFuse
  \/ Rescore
  \/ SortRescored
  \/ HybridDiversify
  \/ HybridReturn

SpecRetrieve == InitRetrieve /\ [][NextRetrieve]_vars

(***************************************************************************)
(* scripts/collect_obsidian.py: split_frontmatter.  A text is the sequence *)
(* of its lines; the lines are a delimiter, a blank line, a mapping entry, *)
(* a list item and a plain word.                                           *)
(***************************************************************************)
Delimiter == "---"
BlankLine == ""
FmLines == {Delimiter, BlankLine, "k: v", "- x", "x"}

FmTexts == UNION {[1..n -> FmLines] : n \in 0..MaxLines}

\* the number of blank lines that follow the first line
LeadingBlanks(text) ==
  CHOOSE b \in 0..Len(text) :
    /\ \A i \in 2..(b + 1) : i <= Len(text) /\ text[i] = BlankLine
    /\ (b + 2 > Len(text) \/ text[b + 2] /= BlankLine)

\* FRONTMATTER_RE (line 19): the text starts with a delimiter line, whose
\* greedy \s* also takes the blank lines after it, and a later delimiter
\* follows at least one more line; the lazy group stops at the first such
\* delimiter.  When there is none, the delimiter right after the blank lines
\* closes a block of blank lines.  0 when the text does not match.
ClosingLine(text) ==
  IF text = <<>> \/ Head(text) /= Delimiter THEN 0
  ELSE LET b == LeadingBlanks(text)
       IN  IF \E j \in (b + 3)..Len(text) : text[j] = Delimiter
             THEN CHOOSE j \in (b + 3)..Len(text) :
                    /\ text[j] = Delimiter
                    /\ \A i \in (b + 3)..(j - 1) : text[i] /= Delimiter
           ELSE IF b >= 1 /\ b + 2 <= Len(text) /\ text[b + 2] = Delimiter
             THEN b + 2
           ELSE 0

\* m.end(): the trailing \s* of the pattern also takes the blank lines that follow
RECURSIVE DropBlank(_)
DropBlank(ls) ==
  IF ls /= <<>> /\ Head(ls) = BlankLine THEN DropBlank(Tail(ls)) ELSE ls

\* text[m.end():]
AfterBlock(text) == DropBlank(SubSeq(text, ClosingLine(text) + 1, Len(text)))

\* m.group(1), with the blank lines the opening took
BlockOf(text) == SubSeq(text, 2, ClosingLine(text) - 1)

\* the lines of a block that carry content (a delimiter line inside the block
\* starts the YAML document)
ContentOf(block) == SelectSeq(block, LAMBDA l : l /= BlankLine /\ l /= Delimiter)

\* yaml.safe_load of the block: "none" for an empty document, "mapping",
\* "list", "scalar", or "error" for yaml.YAMLError.  A block mixing entries,
\* items and words is an error or, when it starts with a word, possibly one
\* folded scalar.
YamlOutcomes(block) ==
  LET c == ContentOf(block)
      kinds == {c[i] : i \in 1..Len(c)}
  IN  IF c = <<>> THEN {"none"}
      ELSE IF kinds = {"k: v"} THEN {"mapping"}
      ELSE IF kinds = {"- x"} THEN {"list"}
      ELSE IF kinds = {"x"} THEN {"scalar"}
      ELSE IF c[1] = "x" THEN {"scalar", "error"}
      ELSE {"error"}

\* the dict of a block of entries
YamlMapping == [key \in {"k"} |-> "v"]
EmptyDict == <<>>

\* split_frontmatter (35-51) for one outcome of the parser
split_frontmatter(text, parsed) ==
  IF ClosingLine(text) = 0 THEN [data |-> EmptyDict, body |-> text]
  ELSE IF parsed = "error" THEN [data |-> EmptyDict, body |-> text]
  ELSE [data |-> IF parsed = "mapping" THEN YamlMapping ELSE EmptyDict,
        body |-> AfterBlock(text)]

SplitFrontmatter ==
  /\ fm_pc = "start"
  /\ \E parsed \in (IF ClosingLine(fm_text) = 0 THEN {"unmatched"}
                    ELSE YamlOutcomes(BlockOf(fm_text))) :
       /\ fm_parsed' = Some(parsed)
       /\ fm_data' = split_frontmatter(fm_text, parsed).data
       /\ fm_body' = split_frontmatter(fm_text, parsed).body
  /\ fm_pc' = "done"
  /\ UNCHANGED <<fm_text, agent_vars, not_fm>>

InitFm ==
  /\ AgentInit
  /\ AuxInitExcept("fm")
  /\ fm_text \in FmTexts
  /\ fm_pc = "start"
  /\ fm_parsed = None
  /\ fm_data = <<>>
  /\ fm_body = <<>>

NextFm ==
  \/ SplitFrontmatter

SpecFm == InitFm /\ [][NextFm]_vars

(***************************************************************************)
(* scripts/evaluate_rag.py: the judge step of the evaluation loop          *)
(***************************************************************************)
\* what parse_json_loose (64-73) makes of the judge's reply: a dict with
\* scores, the empty dict, or None for a reply without a JSON object
JudgeReplies == {"scores", "empty", "unparseable"}

\* line 210: if judge_out
Truthy(reply) == reply = "scores"

\* line 206
ShallJudge(enabled, n, count) == enabled /\ (n = 0 \/ count < n)

\* lines 157-235 for one example that is judged
EvalJudged ==
  /\ ev_idx < ev_rows
  /\ ShallJudge(ev_judge, ev_judge_n, judge_count)
  /\ \E reply \in JudgeReplies :
       /\ judge_out' = Some(reply)
       /\ judge_count' = IF Truthy(reply) THEN judge_count + 1 ELSE judge_count
  /\ ev_prompts' = ev_prompts + 1
  /\ ev_idx' = ev_idx + 1
  /\ UNCHANGED <<ev_judge, ev_judge_n, ev_rows, agent_vars, not_eval>>

\* lines 157-235 for one example that is not judged
EvalNotJudged ==
  /\ ev_idx < ev_rows
  /\ ~ShallJudge(ev_judge, ev_judge_n, judge_count)
  /\ judge_out' = None
  /\ ev_idx' = ev_idx + 1
  /\ UNCHANGED <<ev_judge, ev_judge_n, ev_rows, judge_count, ev_prompts,
                 agent_vars, not_eval>>

\* main up to line 156: the arguments and the validation set
InitEval ==
  /\ AgentInit
  /\ AuxInitExcept("eval")
  /\ ev_judge \in BOOLEAN
  /\ ev_judge_n \in 0..MaxJudgeN
  /\ ev_rows \in 0..MaxRows
  /\ ev_idx = 0
  /\ judge_count = 0
  /\ judge_out = None
  /\ ev_prompts = 0

NextEval ==
  \/ EvalJudged
  \/ EvalNotJudged

SpecEval == InitEval /\ [][NextEval]_vars

(***************************************************************************)
(* ka/agent.py: SimplePlanner.plan on inputs made of whole words           *)
(***************************************************************************)
PlanWords ==
  { OpenVerb,
    <<"O", "p", "e", "n">>,
    Pokazhi,
    <<"x">>,
    <<"a", ".", "m", "d">>,
    <<"A", ".", "M", "D">>,
    <<"(", "\"", "b", ".", "m", "d">>,
    <<"\"", "b", ".", "m", "d", "\"", ",">>,
    <<"c", "\\", "d", ".", "m", "d">>,
    <<"a", ".", "m", "d", "x">>,
    <<".", "m", "d">> }

\* the words, single or with one or two blanks between them
PlanInputs ==
  UNION {{Join(ws) : ws \in [1..n -> PlanWords]} : n \in 0..MaxPlanWords}
  \cup {w \o <<" ", " ">> \o v : w \in {OpenVerb}, v \in PlanWords}

\* planner.plan(user_input), agent.py 39-46
PlanCall ==
  /\ pl_call = None
  /\ pl_call' = Some(plan(pl_input))
  /\ UNCHANGED <<pl_input, agent_vars, not_plan>>

InitPlan ==
  /\ AgentInit
  /\ AuxInitExcept("plan")
  /\ pl_input \in PlanInputs
  /\ pl_call = None

NextPlan ==
  \/ PlanCall

SpecPlan == InitPlan /\ [][NextPlan]_vars

(***************************************************************************)
(* ka/embeddings.py, ka/indexing.py, ka/rag.py: the dimensionality of the  *)
(* stored vectors and of the query vector                                  *)
(***************************************************************************)
DefaultModel == "intfloat/multilingual-e5-small"
Backends == {"auto", "sentence-transformers", "hashing"}
HashingDims == {256, DefaultHashingDim}
\* the output size is a property of the model, not known to the code
SemanticDims == {384, 1024}

\* EmbeddingConfig(model_name=...) as Retriever.__init__ builds it: the other
\* fields are the defaults of the dataclass (embeddings.py 10-14)
QueryConfig(model_name) ==
  [model_name |-> model_name, backend |-> "auto", hashing_dim |-> DefaultHashingDim]

\* Embedder._init_backend (34-44): the width of the vectors of the chosen
\* backend, or None when the constructor raises
BackendDim(embed_cfg, runtime, model_dim) ==
  IF embed_cfg.backend = "hashing" THEN Some(embed_cfg.hashing_dim)
  ELSE IF runtime THEN Some(model_dim)
  ELSE IF embed_cfg.backend = "auto" THEN Some(embed_cfg.hashing_dim)
  ELSE None

\* build_index (indexing.py 39-67): embed, create the index, save with the
\* model name; an unavailable required backend raises and nothing is saved
EmbedBuild ==
  /\ em_pc = "start"
  /\ LET width == BackendDim(em_cfg, em_runtime.build, em_model_dim)
     IN  IF width = None
           THEN /\ em_pc' = "failed"
                /\ UNCHANGED <<em_index_dim, em_meta>>
           ELSE /\ em_pc' = "built"
                /\ em_index_dim' = width
                /\ em_meta' = Some([embed_model |-> em_cfg.model_name])
  /\ UNCHANGED <<em_cfg, em_runtime, em_model_dim, em_query_cfg, em_query_dim,
                 agent_vars, not_embed>>

\* Retriever.__init__ (rag.py 79-83): the configuration is rebuilt from the
\* recorded model name
EmbedOpen ==
  /\ em_pc = "built"
  /\ em_query_cfg' = Some(QueryConfig(em_meta[1].embed_model))
  /\ em_pc' = "opened"
  /\ UNCHANGED <<em_cfg, em_runtime, em_model_dim, em_index_dim, em_meta, em_query_dim,
                 agent_vars, not_embed>>

\* Retriever.retrieve (rag.py 86): qv = embed_queries([query])[0]
EmbedQuery ==
  /\ em_pc = "opened"
  /\ em_query_dim' = BackendDim(em_query_cfg[1], em_runtime.query, em_model_dim)
  /\ em_pc' = "queried"
  /\ UNCHANGED <<em_cfg, em_runtime, em_model_dim, em_index_dim, em_meta, em_query_cfg,
                 agent_vars, not_embed>>

\* build_index called with any configuration, the runtime there or not
InitEmbed ==
  /\ AgentInit
  /\ AuxInitExcept("embed")
  /\ em_cfg \in [model_name : {DefaultModel}, backend : Backends, hashing_dim : HashingDims]
  /\ em_runtime \in [build : BOOLEAN, query : BOOLEAN]
  /\ em_model_dim \in SemanticDims
  /\ em_pc = "start"
  /\ em_index_dim = None
  /\ em_meta = None
  /\ em_query_cfg = None
  /\ em_query_dim = None

NextEmbed ==
  \/ EmbedBuild
  \/ EmbedOpen
  \/ EmbedQuery

SpecEmbed == InitEmbed /\ [][NextEmbed]_vars

(***************************************************************************)
(* Properties                                                              *)
(***************************************************************************)
InRun == process \in {"cli", "server"}
Returned == pc \in {"return", "done"}

IsSearchEvent(e) == e.op = "search"
IsToolEvent(e) == e.op \in {"search", "get_note"}
IsFormatEvent(e) == e.op = "format_answer"
SearchEvents == SelectSeq(trace, IsSearchEvent)
ToolEvents == SelectSeq(trace, IsToolEvent)
FormatEvents == SelectSeq(trace, IsFormatEvent)
SameCall(a, b) == a.name = b.name /\ a.args = b.args
\* a search result with no hits or a top hit below 0.15
IsPoor(h) == h = <<>> \/ h[1].score < 15

\* C1: in a run turn the search tool is executed at most twice; a second
\* (expanded-query) search happens only when the first search, on the
\* caller's input, has already returned, and it is never repeated; the
\* tool-call list that run returns has one or two entries.
C1_AtMostOneRetry ==
  InRun =>
    /\ Len(SearchEvents) <= 2
    /\ Len(SearchEvents) >= 1 =>
         /\ hits1 # None
         /\ SearchEvents[1].arg.args.query = user_input
    /\ Len(SearchEvents) = 2 <=> hits2 # None
    /\ hits2 # None =>
         /\ expanded # None
         /\ SearchEvents[2].arg.args.query = expanded[1]
    /\ Returned => Len(calls) \in {1, 2}

C1_Witness ==
  /\ InRun
  /\ pc = "done"
  /\ Len(SearchEvents) = 2
  /\ Len(calls) = 2
  /\ IsPoor(hits)

\* C2 as stated: whenever the first search of a run turn returns no hits or
\* a top hit below 0.15, exactly one more search call is recorded and
\* executed, with the expanded query.
C2_AlwaysRetries ==
  (InRun /\ Returned /\ hits1 # None /\ IsPoor(hits1[1])) =>
    /\ Len(calls) = 2
    /\ calls[2] = SearchCall(_expand_query(user_input), caller_k)
    /\ Len(SearchEvents) = 2
    /\ SameCall(SearchEvents[2].arg, calls[2])

\* C2 amended: whenever the first search of a run turn returns no hits or a
\* top hit below 0.15, and the expanded query differs from the query, exactly
\* one more search call is recorded and executed, with the expanded query;
\* when the expanded query equals the query, no further call is recorded or
\* executed.
C2_RetriesWhenExpanded ==
  (InRun /\ Returned /\ hits1 # None /\ IsPoor(hits1[1])) =>
    IF _expand_query(user_input) # user_input
      THEN /\ Len(calls) = 2
           /\ calls[2] = SearchCall(_expand_query(user_input), caller_k)
           /\ Len(SearchEvents) = 2
           /\ SameCall(SearchEvents[2].arg, calls[2])
      ELSE /\ Len(calls) = 1
           /\ Len(SearchEvents) = 1

C2_Witness ==
  /\ InRun
  /\ pc = "done"
  /\ hits1 = Some(<<>>)
  /\ expanded # None
  /\ expanded[1] # user_input
  /\ Len(calls) = 2
  /\ Len(SearchEvents) = 2

\* C3: when the first search of a run turn returns at least one hit and the
\* top hit scores 0.15 or more, no second search is executed or recorded.
C3_NoRetryAtThreshold ==
  (InRun /\ hits1 # None /\ hits1[1] # <<>>
         /\ hits1[1][1].score >= ExpandThreshold) =>
    /\ Len(calls) = 1
    /\ Len(SearchEvents) = 1
    /\ hits2 = None
    /\ pc # "search2"

C3_Witness ==
  /\ InRun
  /\ pc = "done"
  /\ hits1 # None
  /\ hits1[1] # <<>>
  /\ hits1[1][1].score = ExpandThreshold
  /\ _expand_query(user_input) # user_input
  /\ Len(calls) = 1

\* C4: format_answer receives the second search's hits exactly when a second
\* search was issued and returned at least one hit, and the first search's
\* hits otherwise; the question it receives is the caller's input.
C4_AnswerArguments ==
  InRun =>
    \A i \in 1..Len(FormatEvents) :
      /\ FormatEvents[i].arg.question = user_input
      /\ FormatEvents[i].arg.hits =
           IF hits2 # None /\ hits2[1] # <<>> THEN hits2[1] ELSE hits1[1]

C4_Witness ==
  /\ InRun
  /\ Len(FormatEvents) = 1
  /\ hits2 # None
  /\ hits2[1] # <<>>
  /\ hits1[1] # <<>>
  /\ hits2[1] # hits1[1]
  /\ expanded[1] # user_input

C4_WitnessEmptyRetry ==
  /\ InRun
  /\ Len(FormatEvents) = 1
  /\ hits2 = Some(<<>>)
  /\ hits1[1] # <<>>

\* C5: the tool-call list run returns is the sequence of tool invocations
\* executed in the turn, in order, with the names and arguments used; a
\* search entry carries the k the caller supplied.
C5_CallsAreExecuted ==
  (InRun /\ Returned) =>
    /\ Len(calls) = Len(ToolEvents)
    /\ \A i \in 1..Len(calls) :
         /\ SameCall(calls[i], ToolEvents[i].arg)
         /\ calls[i].name = "search" => calls[i].args.k = caller_k

C5_Witness ==
  /\ process = "cli"
  /\ pc = "done"
  /\ Len(calls) = 2
  /\ caller_k # DefaultK

\* C6: get_note for an id that no row of the notes store has returns the
\* not-found message with one recorded call, get_note, and neither searches
\* nor generates.
C6_MissingNote ==
  (InRun /\ Returned /\ Len(calls) >= 1 /\ calls[1].name = "get_note"
         /\ \A i \in 1..Len(env.rows[1]) :
              env.rows[1][i].id # calls[1].args.note_id) =>
    /\ answer = Some(NoteNotFound(calls[1].args.note_id))
    /\ raised = None
    /\ Len(calls) = 1
    /\ trace = <<Event("get_note", calls[1])>>

C6_Witness ==
  /\ InRun
  /\ pc = "done"
  /\ calls[1].name = "get_note"
  /\ env.rows[1] # <<>>
  /\ answer = Some(NoteNotFound(calls[1].args.note_id))

\* C7: the k of a POST /ask request has no effect: every search of the turn,
\* executed or recorded, uses k = 5, and a second request with the same
\* question and another k, served in the same environment, gets the same
\* answer and tool calls.
C7_RequestKIgnored ==
  process = "server" =>
    /\ \A i \in 1..Len(SearchEvents) : SearchEvents[i].arg.args.k = DefaultK
    /\ \A i \in 1..Len(calls) :
         calls[i].name = "search" => calls[i].args.k = DefaultK
    /\ (pc = "done" /\ replay # None) =>
         /\ req[1].question = prev[1].req.question
         /\ req[1].k # prev[1].req.k
         /\ response = Some(prev[1].response)

C7_Witness ==
  /\ process = "server"
  /\ pc = "done"
  /\ replay # None
  /\ req[1].k # DefaultK
  /\ prev[1].req.k = DefaultK
  /\ Len(calls) = 2
  /\ Len(hits1[1]) = MaxHits
  /\ response[1].status = 200

\* C8: within one query the answer generation (format_answer, the default
\* client lookup and the chat call) starts only after every retrieval of the
\* query has returned: no retrieval follows it, and in a run turn every
\* recorded search has been executed by then.
IsRetrievalEvent(e) == e.op \in {"search", "retrieve"}
IsGenerationEvent(e) == e.op \in {"format_answer", "get_default_llm", "chat"}

C8_RetrievalBeforeGeneration ==
  /\ \A i \in 1..Len(trace), j \in 1..Len(trace) :
       (IsGenerationEvent(trace[i]) /\ IsRetrievalEvent(trace[j])) => j < i
  /\ \A i \in 1..Len(trace) :
       IsGenerationEvent(trace[i]) =>
         /\ hits1 # None
         /\ trace[i].arg.hits = hits
         /\ InRun => Len(SearchEvents) = Len(calls)

C8_Witness ==
  /\ InRun
  /\ Len(trace) = 5
  /\ trace[2].op = "search"
  /\ trace[5].op = "chat"

C8_WitnessBot ==
  /\ process = "bot"
  /\ Len(trace) = 4
  /\ trace[1].op = "retrieve"
  /\ trace[4].op = "chat"

\* C9: with a non-empty hit list, a failed chat call (transport error, HTTP
\* error status, timeout, malformed response) does not leave
\* answer_with_llm: the function returns answer_extractively(question, hits).
C9_ChatFailureFallsBack ==
  (env.chat # None /\ env.chat[1].kind # "ok") =>
    /\ raised = None
    /\ FormatEvents[1].arg.hits # <<>>
    /\ answer = Some(Text("extractive", FormatEvents[1].arg.question,
                          FormatEvents[1].arg.hits, <<>>))
    /\ process = "bot" /\ pc = "done" => replies = <<"answer">>

C9_Witness ==
  /\ env.chat # None
  /\ env.chat[1].kind = "Timeout"
  /\ pc = "done"
  /\ answer # None
  /\ answer[1].kind = "extractive"

\* C10: when answer_with_llm has a non-empty hit list and no client, and the
\* default client cannot be obtained, it returns
\* answer_extractively(question, hits) instead of failing.
C10_NoClientFallsBack ==
  (pc = "return" /\ Len(trace) >= 1
     /\ trace[Len(trace)].op = "get_default_llm"
     /\ env.api_key # None
     /\ Strip(env.api_key[1], {" "}) = <<>>) =>
    /\ raised = None
    /\ answer = Some(answer_extractively(trace[Len(trace)].arg.question,
                                         trace[Len(trace)].arg.hits))

\* C11: with an empty hit list format_answer returns the fixed no-hits
\* message in every answer mode, and neither looks up (constructs) the
\* default LLM client nor sends a chat request.
C11_EmptyHitsFixedMessage ==
  (Len(FormatEvents) = 1 /\ FormatEvents[1].arg.hits = <<>>) =>
    /\ trace[Len(trace)].op = "format_answer"
    /\ env.api_key = None
    /\ env.chat = None
    /\ llm = None
    /\ raised = None
    /\ pc \in {"return", "done"}
    /\ answer = Some([kind |-> "no_hits", question |-> <<>>, hits |-> <<>>,
                      body |-> <<>>])

C11_Witness ==
  /\ pc = "done"
  /\ Len(FormatEvents) = 1
  /\ FormatEvents[1].arg.hits = <<>>
  /\ env.mode = Some("other")
  /\ _DEFAULT_LLM = None

C11_WitnessExtractive ==
  /\ pc = "done"
  /\ Len(FormatEvents) = 1
  /\ FormatEvents[1].arg.hits = <<>>
  /\ env.mode = Some("baseline")

\* C12: under any interleaving of the request threads the default LLMClient
\* is constructed at most once and every call that returns a client returns
\* the same one.
C12_SingletonOnce == constructed <= 1 /\ Cardinality(returned) <= 1

\* C13: in the bot process the module-level retriever reference is written
\* once, by init_retriever at startup and by no handler; polling and every
\* handler run only with the reference set; and when init_retriever fails
\* the reference stays unset and polling never starts.
BotPolling == process = "bot" /\ pc \notin {"startup", "ready", "exited"}
C13_RetrieverWrittenBeforePolling ==
  /\ [](BotPolling => _retriever # None)
  /\ [](pc = "exited" => _retriever = None)
  /\ [][(process = "bot" /\ _retriever' # _retriever)
          => (pc = "startup" /\ _retriever = None /\ _retriever' # None)]_vars
  /\ [][pc = "exited" => pc' = "exited"]_vars
C13_Witness == process = "bot" /\ pc = "bot_retrieve" /\ _retriever # None
C13_WitnessFailed == process = "bot" /\ pc = "exited" /\ _retriever = None

\* C14: for both index variants, an add whose payload count differs from its
\* vector count, or whose column count differs from the index's dimension,
\* raises ValueError and leaves the index as it was (vectors, payloads and
\* next id), so that what a later add does is not affected.
IsBadAdd(op, ix) ==
  \/ Len(op.payloads) # op.vectors.shape[1]
  \/ op.vectors.shape[2] # ix.dim
C14_RejectedAddLeavesIndex ==
  (ix_op.op = "add" /\ IsBadAdd(ix_op, ix_before[1])) =>
    /\ ix_op.raised = Some("ValueError")
    /\ index = ix_before
C14_Witness ==
  /\ ix_op.op = "add"
  /\ index[1].kind = "hnsw"
  /\ index[1].payload # <<>>
  /\ ix_op.vectors.shape[2] = index[1].dim
  /\ Len(ix_op.payloads) # ix_op.vectors.shape[1]
C14_WitnessExact ==
  /\ ix_op.op = "add"
  /\ index[1].kind = "bruteforce"
  /\ index[1].payload # <<>>
  /\ ix_op.vectors.shape[2] # index[1].dim
  /\ Len(ix_op.payloads) = ix_op.vectors.shape[1]

\* C15: load_best_index returns the approximate index exactly when hnsw.index
\* and meta.json are both present and the approximate load succeeds; in
\* every other case it goes on to the exact load, and it raises
\* FileNotFoundError only when the exact index's three files are not all
\* present.
ApproxLoads == files.hnsw_index # None /\ files.meta # None /\ ix_op.hnsw = "ok"
ExactFiles ==
  files.vectors_npy # None /\ files.payload_jsonl # None /\ files.meta # None
C15_LoadBestIndex ==
  ix_op.op = "load_best_index" =>
    /\ (index # None /\ index[1].kind = "hnsw") <=> ApproxLoads
    /\ ApproxLoads => ix_op.attempts = <<"hnsw">>
    /\ ~ApproxLoads => ix_op.attempts[Len(ix_op.attempts)] = "bruteforce"
    /\ ix_op.raised = Some("FileNotFoundError") => ~ExactFiles
C15_Witness ==
  /\ ix_op.op = "load_best_index"
  /\ ix_op.attempts = <<"hnsw", "bruteforce">>
  /\ index # None
  /\ index[1].kind = "bruteforce"
C15_WitnessNotFound ==
  /\ ix_op.op = "load_best_index"
  /\ files.hnsw_index # None
  /\ files.meta = None
  /\ ix_op.raised = Some("FileNotFoundError")

\* C16: after any sequence of builds into one directory, a load_best_index
\* (with hnswlib importable and every file readable) yields an index whose
\* payloads are the chunks of the most recent build, and searching it with
\* the vector of any of those chunks gives that chunk as the top hit.
C16_RoundTrip ==
  (ix_op.op = "load_best_index" /\ last_build # None
     /\ ix_op.hnsw = "ok" /\ ix_op.exact = "ok") =>
    /\ index # None
    /\ index[1].payload = Payloads(last_build[1])
    /\ \A i \in DOMAIN last_build[1] :
         index_search(index[1], Embed(last_build[1][i], index[1].dim)).top
           = Some(Payload(last_build[1][i]))

\* C17: the chunks written for a note carry the ids "{note_id}#1" ..
\* "{note_id}#N" in the order written, each once, with position equal to the
\* number in the id; the numbering goes on across the note's sections and
\* starts again at 1 with every note.
C17_ChunkIdsSequential ==
  /\ chunk_index = Len(out_chunks)
  /\ \A i \in DOMAIN out_chunks :
       /\ out_chunks[i].note_id = chunk_note_id[1]
       /\ out_chunks[i].position = i
       /\ out_chunks[i].chunk_id = chunk_note_id[1] \o <<"#">> \o Decimal(i)
  /\ \A i, j \in DOMAIN out_chunks :
       out_chunks[i].chunk_id = out_chunks[j].chunk_id => i = j
C17_Witness ==
  /\ Len(out_chunks) >= 3
  /\ out_chunks[1].section = 1
  /\ out_chunks[2].section = 1
  /\ out_chunks[3].section = 2
  /\ chunk_note_id = Some(<<"b">>)

\* C18: every chunk chunk_text produces has at most chunk_size words, except
\* a chunk that is a single sentence of at least chunk_size words.
IsSentenceOf(chunk, text) ==
  \E i \in DOMAIN split_into_sentences(text) : split_into_sentences(text)[i] = chunk
C18_ChunkSizeBound ==
  \A i \in DOMAIN raw_chunks :
    \/ Len(raw_chunks[i]) <= args[1].chunk_size
    \/ /\ IsSentenceOf(raw_chunks[i], section_text)
       /\ Len(raw_chunks[i]) >= args[1].chunk_size

\* C19: chunk_text drops and reorders no sentence: each chunk is an overlap
\* prefix, copied from the end of the chunk before it, followed by the next
\* whole sentences of the section; the chunks together cover all sentences
\* in their order.
LastId(chunk) == chunk[Len(chunk)].id
NewFrom(j) == IF j = 1 THEN 1 ELSE LastId(raw_chunks[j - 1]) + 1
PrefixLen(j) == Len(raw_chunks[j]) - (LastId(raw_chunks[j]) - NewFrom(j) + 1)
IsSuffix(s, t) == Len(s) <= Len(t) /\ s = SubSeq(t, Len(t) - Len(s) + 1, Len(t))
EndsSentence(w, text) == w.end \/ w.id = Len(text)
C19_NoSentenceLost ==
  /\ (raw_chunks = <<>>) <=> (section_text = <<>>)
  /\ raw_chunks # <<>> => LastId(raw_chunks[Len(raw_chunks)]) = Len(section_text)
  /\ \A j \in DOMAIN raw_chunks :
       /\ raw_chunks[j] # <<>>
       /\ LastId(raw_chunks[j]) >= NewFrom(j)
       /\ EndsSentence(raw_chunks[j][Len(raw_chunks[j])], section_text)
       /\ PrefixLen(j) >= 0
       /\ SubSeq(raw_chunks[j], PrefixLen(j) + 1, Len(raw_chunks[j]))
            = SubSeq(section_text, NewFrom(j), LastId(raw_chunks[j]))
       /\ j = 1 => PrefixLen(j) = 0
       /\ j > 1 => IsSuffix(SubSeq(raw_chunks[j], 1, PrefixLen(j)), raw_chunks[j - 1])
C19_Witness ==
  /\ Len(raw_chunks) = 2
  /\ Len(split_into_sentences(section_text)) = 3
  /\ Len(raw_chunks[1]) = 3
  /\ PrefixLen(2) = 2

\* C20: with diversification switched on, the diversified list is the sorted
\* list without those entries of a non-empty note_id that come after the
\* first max_chunks_per_note entries of that note (entries without note_id
\* all stay, the order stays), and the returned hits hold at most
\* max_chunks_per_note hits of any one note.
EarlierOfNote(e) ==
  {j \in 1..(e.rank - 1) : sorted_hits[j].note_id = e.note_id}
KeptByCap(e) ==
  e.note_id = <<>> \/ Cardinality(EarlierOfNote(e)) < cfg[1]._max_chunks_per_note
HitsOfNote(hs, id) == {i \in DOMAIN hs : hs[i].note_id = id}
CapRespected ==
  /\ rescored = SelectSeq(sorted_hits, KeptByCap)
  /\ hr_pc = "returned" =>
       \A id \in CandidateNotes \ {<<>>} :
         Cardinality(HitsOfNote(out, id)) <= cfg[1]._max_chunks_per_note
C20_CapPerNote ==
  (hr_pc \in {"diversified", "returned"} /\ cfg[1]._diversify_by_note) => CapRespected

\* C20 as it holds: the same, for a max_chunks_per_note of at least 1
C20_CapPerNoteWhenPositive ==
  (hr_pc \in {"diversified", "returned"} /\ cfg[1]._diversify_by_note
     /\ cfg[1]._max_chunks_per_note >= 1) => CapRespected
C20_Witness ==
  /\ hr_pc = "returned"
  /\ cfg[1]._diversify_by_note
  /\ cfg[1]._max_chunks_per_note = 2
  /\ Len(sorted_hits) = 5
  /\ \A i \in 1..5 : sorted_hits[i].note_id = <<"a">>
  /\ out = SubSeq(sorted_hits, 1, 2)

\* the text "{title}. {section}" with ". " and whitespace stripped from both ends
TitleDotSection(r) ==
  Strip(Strip(r.title \o <<".", " ">> \o r.section, {".", " "}), Whitespace)

\* C21 as stated: the example of title "A" and section "B" has the query "A. B",
\* and the example of an empty title and section and the text "hello world" has
\* the query "hello world"
C21_QueryIsTitleDotSection ==
  val_example # None =>
    LET r == val_row[1]
    IN  /\ (r.title = <<"A">> /\ r.section = <<"B">>)
             => val_example[1].query = <<"A", ".", " ", "B">>
        /\ (r.title = <<>> /\ r.section = <<>> /\ r.text = HelloWorld)
             => val_example[1].query = HelloWorld

\* C21 amended: the query is "{title}. {section}" stripped when that has at
\* least 8 characters; a shorter one is replaced by the title, else the section,
\* else the first 80 characters of the text, else "query".  Title "A" and section
\* "B" give "A"; an empty title and section with the text "hello world" give
\* "hello world"
C21_QueryWithFallback ==
  val_example # None =>
    LET r == val_row[1]
        q == val_example[1].query
    IN  /\ Len(TitleDotSection(r)) >= QueryMinLen => q = TitleDotSection(r)
        /\ (Len(TitleDotSection(r)) < QueryMinLen /\ r.title # <<>>) => q = r.title
        /\ (Len(TitleDotSection(r)) < QueryMinLen /\ r.title = <<>> /\ r.section # <<>>)
             => q = r.section
        /\ (r.title = <<>> /\ r.section = <<>> /\ r.text # <<>>)
             => /\ Len(q) <= TextPrefix
                /\ q = SubSeq(r.text, 1, Len(q))
                /\ (Len(r.text) <= TextPrefix => q = r.text)
        /\ (r.title = <<>> /\ r.section = <<>> /\ r.text = <<>>) => q = QueryWord
        /\ (r.title = <<"A">> /\ r.section = <<"B">>) => q = <<"A">>
        /\ (r.title = <<>> /\ r.section = <<>> /\ r.text = HelloWorld) => q = HelloWorld

C21_Witness ==
  /\ val_example # None
  /\ val_row[1].title = <<"A">>
  /\ val_row[1].section = <<"B">>
  /\ val_example[1].query = <<"A">>

C21_WitnessLong ==
  /\ val_example # None
  /\ val_row[1].title = <<"A", "A", "A">>
  /\ val_row[1].section = <<"B", "B", "B">>
  /\ val_example[1].query = <<"A", "A", "A", ".", " ", "B", "B", "B">>

\* the lines of a text that are not blank, each without the whitespace at its ends
RECURSIVE NonBlank(_)
NonBlank(lines) ==
  IF lines = <<>> THEN <<>>
  ELSE IF Strip(Head(lines), Whitespace) = <<>> THEN NonBlank(Tail(lines))
  ELSE <<Strip(Head(lines), Whitespace)>> \o NonBlank(Tail(lines))

RECURSIVE LinesOfPieces(_)
LinesOfPieces(pieces) ==
  IF pieces = <<>> THEN <<>>
  ELSE NonBlank(SplitLines(Head(pieces))) \o LinesOfPieces(Tail(pieces))

PieceFits(piece, text, limit) ==
  \/ Len(piece) <= limit
  \/ /\ NewlinesOf(piece) = {}
     /\ \E j \in 1..Len(SplitLines(text)) :
          /\ Len(SplitLines(text)[j]) > limit
          /\ piece = Strip(SplitLines(text)[j], Whitespace)

AnswersSent == SelectSeq(hq_sent, LAMBDA m : m.kind = "answer")

\* C22: the pieces of split_long_message hold the lines of the text whole and in
\* their order (blank lines and the whitespace at the ends of a piece aside);
\* every piece is at most max_length long unless it is one line longer than
\* that; the handler sends the pieces in order, one message each, the first as
\* it is and every later one behind the continuation marker, and has sent all
\* of them when it returns without an exception
C22_SplitAndSend ==
  hq_chunks # None =>
    LET pieces == hq_chunks[1]
        text == hq_formatted[1]
    IN  /\ LinesOfPieces(pieces) = NonBlank(SplitLines(text))
        /\ \A i \in 1..Len(pieces) : PieceFits(pieces[i], text, hq_max_length)
        /\ Len(AnswersSent) <= Len(pieces)
        /\ \A i \in 1..Len(AnswersSent) :
             AnswersSent[i].text
               = IF i = 1 THEN pieces[1] ELSE ContinuationMarker \o pieces[i]
        /\ (hq_pc = "returned" /\ hq_exc = None)
             => /\ Len(AnswersSent) = Len(pieces)
                /\ hq_sent = AnswersSent

C22_Witness ==
  /\ hq_pc = "returned"
  /\ hq_exc = None
  /\ hq_max_length = TelegramMaxLength
  /\ hq_chunks # None
  /\ Len(hq_chunks[1]) = 2
  /\ Len(hq_sent) = 2

C22_WitnessLongLine ==
  /\ hq_pc = "returned"
  /\ hq_exc = None
  /\ hq_chunks # None
  /\ \E i \in 1..Len(hq_chunks[1]) : Len(hq_chunks[1][i]) > hq_max_length
  /\ Len(hq_sent) = Len(hq_chunks[1])
  /\ Len(hq_sent) >= 2

\* C23: no exception of the flow leaves handle_query, and every exception is
\* answered with the failure message that quotes at most the first 200
\* characters of str(e)
C23_ExceptionsReported ==
  /\ hq_escaped = None
  /\ (hq_pc = "returned" /\ hq_exc # None)
       => /\ hq_sent # <<>>
          /\ hq_sent[Len(hq_sent)].kind = "error"
          /\ Len(hq_sent[Len(hq_sent)].text) <= ErrorPrefix
          /\ hq_sent[Len(hq_sent)].text
               = SubSeq(hq_exc[1], 1, Len(hq_sent[Len(hq_sent)].text))

\* the ids 0, 1, ..., n-1 in this order
DenseIds(n) == [i \in 1..n |-> i - 1]

\* C24: the keys of the approximate index's payload are 0..n-1 for the n vectors
\* accepted so far, each assigned once and in increasing order, _next_id is n,
\* and an index saved and loaded again goes on from the same ids
C24_PayloadIdsDense ==
  (index # None /\ index[1].kind = "hnsw") =>
    LET ix == index[1]
        n == Len(Stored(ix))
        again == HnswIndex_load(save(ix, NoFiles, EmbedModel).files, "ok").index[1]
    IN  /\ ix.ids[1] = DenseIds(n)
        /\ Len(ix.payload) = n
        /\ ix.next_id[1] = n
        /\ again.ids[1] = DenseIds(n)
        /\ again.payload = ix.payload
        /\ again.next_id[1] = n
        /\ (ix_op.op = "add" /\ ix_op.raised # None) => ix.ids = ix_before[1].ids
        /\ (ix_op.op = "add" /\ ix_op.raised = None)
             => \A i \in 1..Len(ix.ids[1]) :
                  i > Len(ix_before[1].ids[1])
                    => \A j \in 1..Len(ix_before[1].ids[1]) :
                         ix.ids[1][i] > ix_before[1].ids[1][j]

\* a second accepted add: its vector gets the id after the first one's
C24_Witness ==
  /\ index # None
  /\ index[1].kind = "hnsw"
  /\ ix_op.op = "add"
  /\ ix_op.raised = None
  /\ ix_op.vectors.shape[1] = 1
  /\ ix_before # None
  /\ ix_before[1].ids = Some(<<0>>)
  /\ index[1].ids = Some(<<0, 1>>)

C24_WitnessEmptyBatch ==
  /\ index # None
  /\ index[1].kind = "hnsw"
  /\ ix_op.op = "add"
  /\ ix_op.raised = None
  /\ ix_op.vectors.shape[1] = 0
  /\ index[1].ids = Some(<<0>>)

(***************************************************************************)
(* C26: reciprocal rank fusion                                             *)
(***************************************************************************)
\* the 1-based rank of a chunk id in a ranking, 0 when it is not in it
RankIn(hs, cid) ==
  IF \E i \in 1..Len(hs) : hs[i].chunk_id = cid
    THEN CHOOSE i \in 1..Len(hs) : hs[i].chunk_id = cid
    ELSE 0

\* the sum of 1 / (K + rank) over the rankings holding cid, times RrfDen(K)
ReciprocalSum(cid, K) ==
  (IF RankIn(vec_hits, cid) = 0 THEN 0 ELSE RrfDen(K) \div (K + RankIn(vec_hits, cid)))
  + (IF RankIn(bm25_hits, cid) = 0 THEN 0 ELSE RrfDen(K) \div (K + RankIn(bm25_hits, cid)))

\* a / da = b / db
SameFraction(a, da, b, db) == IF da = db THEN a = b ELSE a * db = b * da

RankedIds == {cid \in FuseIds \ {<<>>} : RankIn(vec_hits, cid) > 0 \/ RankIn(bm25_hits, cid) > 0}

IdsOf(hs) == [i \in 1..Len(hs) |-> hs[i].chunk_id]

\* the fused list holds every ranked chunk id once, with the sum of
\* 1 / (K + rank) as score and the payload of the first list holding it, in
\* descending order of score
FusedWith(K) ==
  /\ \A cid \in RankedIds :
       /\ Cardinality({i \in 1..Len(fused) : fused[i].chunk_id = cid}) = 1
       /\ \A i \in 1..Len(fused) :
            fused[i].chunk_id = cid =>
              /\ SameFraction(fused[i].score, RrfDen(Max(1, _rrf_k)), ReciprocalSum(cid, K), RrfDen(K))
              /\ fused[i].src = (IF RankIn(vec_hits, cid) > 0 THEN "vec" ELSE "bm25")
              /\ fused[i].note_id = NoteOf(cid)
  /\ \A i \in 1..Len(fused) : fused[i].chunk_id \in RankedIds
  /\ \A i, j \in 1..Len(fused) : i < j => fused[i].score >= fused[j].score

\* the example: [A, B, C] and [C, A, B] with rrf_k = 60
RrfExample ==
  /\ IdsOf(vec_hits) = <<(<<"A">>), (<<"B">>), (<<"C">>)>>
  /\ IdsOf(bm25_hits) = <<(<<"C">>), (<<"A">>), (<<"B">>)>>
  /\ _rrf_k = DefaultRrfK

\* A is first with 1/61 + 1/62
ExampleHolds ==
  /\ fused[1].chunk_id = <<"A">>
  /\ fused[1].score * 61 * 62 = RrfDen(DefaultRrfK) * (61 + 62)

\* C26 as stated: every chunk_id scores the sum of 1 / (rrf_k + rank) over the
\* rankings it occurs in, is emitted once with the first payload seen, the
\* output is in descending order of score, and in the example A scores
\* 1/61 + 1/62 and is first
C26_RrfScores ==
  hr_pc = "fused" =>
    /\ FusedWith(_rrf_k)
    /\ RrfExample => ExampleHolds

\* C26 amended: the same with the constant max(1, rrf_k)
C26_RrfScoresClamped ==
  hr_pc = "fused" =>
    /\ FusedWith(Max(1, _rrf_k))
    /\ RrfExample => ExampleHolds

\* C26 witness: the example has been fused
C26_Witness ==
  /\ hr_pc = "fused"
  /\ RrfExample
  /\ Len(fused) = 3

\* C26 witness: a chunk in only one ranking, a payload without chunk_id, and
\* the constant 0
C26_WitnessClamped ==
  /\ hr_pc = "fused"
  /\ _rrf_k = 0
  /\ \E i \in 1..Len(vec_hits) : vec_hits[i].chunk_id = <<>>
  /\ \E cid \in RankedIds : RankIn(vec_hits, cid) = 0
  /\ Len(fused) >= 2

(***************************************************************************)
(* C25: the result of the hybrid retrieve                                  *)
(***************************************************************************)
\* C25: retrieve(query, k) returns at most max(1, k) hits, in non-increasing
\* order of final score, and no chunk_id twice
C25_RetrieveResult ==
  hr_pc = "returned" =>
    /\ Len(out) <= Max(1, req_k)
    /\ \A i, j \in 1..Len(out) : i < j => out[i].score >= out[j].score
    /\ \A i, j \in 1..Len(out) : out[i].chunk_id = out[j].chunk_id => i = j

\* C25 witness: a chunk found by both searches, the adjustments changed the
\* fused order, and two hits of different score are returned
C25_Witness ==
  /\ hr_pc = "returned"
  /\ \E i \in 1..Len(vec_hits), j \in 1..Len(bm25_hits) :
       vec_hits[i].chunk_id = bm25_hits[j].chunk_id /\ vec_hits[i].chunk_id /= <<>>
  /\ Len(out) >= 2
  /\ out[1].score > out[2].score
  /\ out[1].chunk_id = fused[2].chunk_id

\* C25 witness: k = 0 counts as 1 and cuts a longer candidate list
C25_WitnessClampedK ==
  /\ hr_pc = "returned"
  /\ req_k = 0
  /\ Len(rescored) >= 2
  /\ Len(out) = 1

\* C25 witness: the per-note cap removed a candidate before the cut
C25_WitnessDiversified ==
  /\ hr_pc = "returned"
  /\ Len(rescored) < Len(sorted_hits)
  /\ Len(out) = Len(rescored)
  /\ Len(out) >= 2

(***************************************************************************)
(* C27: front matter that does not parse to a mapping                      *)
(***************************************************************************)
\* C27: a block that fails to parse or parses to something else than a
\* mapping gives empty front matter and the entire text as body; only a block
\* that parses to a mapping is removed from the body
C27_WholeTextUnlessMapping ==
  (fm_pc = "done" /\ ClosingLine(fm_text) > 0) =>
    /\ fm_parsed[1] \in {"error", "list", "scalar"} =>
         (fm_data = EmptyDict /\ fm_body = fm_text)
    /\ fm_body /= fm_text => fm_parsed[1] = "mapping"

\* C27, what the code does instead: only a parse failure restores the entire
\* text; a block that parses to a list, a scalar or nothing is removed
C27_WholeTextOnErrorOnly ==
  (fm_pc = "done" /\ ClosingLine(fm_text) > 0) =>
    /\ fm_parsed[1] = "error" => (fm_data = EmptyDict /\ fm_body = fm_text)
    /\ fm_parsed[1] \in {"list", "scalar", "none"} =>
         (fm_data = EmptyDict /\ fm_body = AfterBlock(fm_text))
    /\ fm_parsed[1] = "mapping" =>
         (fm_data = YamlMapping /\ fm_body = AfterBlock(fm_text))

\* C27 failing input: a list block in front of a body line, removed from the body
C27_WitnessList ==
  /\ fm_pc = "done"
  /\ fm_text = <<Delimiter, "- x", Delimiter, "x">>
  /\ fm_body = <<"x">>

(***************************************************************************)
(* C28: how many examples are sent to the judge                            *)
(***************************************************************************)
\* C28: with judging enabled and judge_n = N > 0 the grading prompt is sent
\* for at most N examples, whatever the judge replies; with N = 0 it is sent
\* for every example
C28_AtMostNPrompts ==
  ev_judge =>
    /\ ev_judge_n > 0 => ev_prompts <= ev_judge_n
    /\ ev_judge_n = 0 => ev_prompts = ev_idx

\* C28, what the code bounds instead: the number of replies that parsed to a
\* non-empty object
C28_AtMostNParsed ==
  ev_judge =>
    /\ ev_judge_n > 0 => judge_count <= ev_judge_n
    /\ ev_judge_n = 0 => ev_prompts = ev_idx

\* C28 failing input: judge_n = 1 and two prompts sent
C28_WitnessSecondPrompt ==
  /\ ev_judge
  /\ ev_judge_n = 1
  /\ ev_prompts = 2
  /\ judge_count = 0

(***************************************************************************)
(* C29: the planner's decision                                             *)
(***************************************************************************)
\* the lower-cased input contains one of the verbs and ".md"
OpenIntent(input) ==
  /\ \/ Contains(Lower(input), Pokazhi)
     \/ Contains(Lower(input), Otkroj)
     \/ Contains(Lower(input), OpenVerb)
  /\ Contains(Lower(input), DotMd)

\* the positions of the whitespace-separated tokens that end in ".md"
MdTokens(words) == {i \in 1..Len(words) : EndsWith(Lower(words[i]), DotMd)}

\* C29 as stated: exactly one tool call; get_note only when the input has the
\* open intent and a whitespace-separated token ending in ".md", with that
\* token of the input, stripped, as note_id; in every other case a search for
\* the unmodified input with k = 5
C29_PlanDecision ==
  pl_call /= None =>
    LET words == Split(pl_input)
        open == OpenIntent(pl_input) /\ MdTokens(words) /= {}
    IN  /\ open =>
              /\ pl_call[1].name = "get_note"
              /\ \E i \in MdTokens(words) :
                   pl_call[1].args.note_id = Strip(words[i], StripChars)
        /\ ~open => pl_call[1] = SearchCall(pl_input, DefaultK)

\* C29 amended: the tokens are those of the input with every backslash
\* replaced by a slash, and the first one ending in ".md" is taken
C29_PlanDecisionNormalised ==
  pl_call /= None =>
    LET words == Split(ReplaceChar(pl_input, "\\", "/"))
        open == OpenIntent(pl_input) /\ MdTokens(words) /= {}
    IN  /\ open =>
              /\ pl_call[1].name = "get_note"
              /\ \E i \in MdTokens(words) :
                   /\ \A j \in MdTokens(words) : i <= j
                   /\ pl_call[1].args.note_id = Strip(words[i], StripChars)
        /\ ~open => pl_call[1] = SearchCall(pl_input, DefaultK)

\* C29 witness: a token after an opening parenthesis and quote is opened by
\* its bare name
C29_Witness ==
  /\ pl_call /= None
  /\ pl_input = Join(<<OpenVerb, <<"(", "\"", "b", ".", "m", "d">>>>)
  /\ pl_call[1] = GetNoteCall(<<"b", ".", "m", "d">>)

\* C29 witness: a token with a closing quote does not end in ".md" and is
\* searched for
C29_WitnessQuoted ==
  /\ pl_call /= None
  /\ pl_input = Join(<<OpenVerb, <<"\"", "b", ".", "m", "d", "\"", ",">>>>)
  /\ pl_call[1] = SearchCall(pl_input, DefaultK)

\* C29 witness: a token with a backslash
C29_WitnessBackslash ==
  /\ pl_call /= None
  /\ pl_input = Join(<<OpenVerb, <<"c", "\\", "d", ".", "m", "d">>>>)
  /\ pl_call[1] = GetNoteCall(<<"c", "/", "d", ".", "m", "d">>)

\* C29 witness: a token ending in ".md" without a verb is searched for
C29_WitnessNoVerb ==
  /\ pl_call /= None
  /\ pl_input = Join(<<(<<"x">>), <<"a", ".", "m", "d">>>>)
  /\ pl_call[1] = SearchCall(pl_input, DefaultK)

\* C29 witness: the verb and ".md" inside a longer token are searched for
C29_WitnessNoToken ==
  /\ pl_call /= None
  /\ pl_input = Join(<<OpenVerb, <<"a", ".", "m", "d", "x">>>>)
  /\ pl_call[1] = SearchCall(pl_input, DefaultK)

(***************************************************************************)
(* C30: the query vector fits the index                                    *)
(***************************************************************************)
\* C30: for every index built with any EmbeddingConfig and opened from its
\* directory alone, the query vector has the dimensionality of the stored
\* vectors, whatever backend is available at query time
C30_QueryDimIsIndexDim ==
  em_pc = "queried" => em_query_dim = em_index_dim

\* C30 failing input: built with the hashing backend and 256 columns, queried
\* with the model's width
C30_WitnessHashingBuild ==
  /\ em_pc = "queried"
  /\ em_cfg.backend = "hashing"
  /\ em_index_dim = Some(256)
  /\ em_query_dim = Some(384)

\* C30 failing input: built with the model, queried without the runtime
C30_WitnessRuntimeLost ==
  /\ em_pc = "queried"
  /\ em_cfg.backend = "auto"
  /\ em_index_dim = Some(384)
  /\ em_query_dim = Some(DefaultHashingDim)

====
